---- MODULE Spec2Model ----
(***************************************************************************)
(* Model of the izysays markdown-preview extension: the inline markup      *)
(* rewriter (addMarkTags / addSuperScript / addSubScript), the text-node   *)
(* walker (applyTextTransformationsToTextNodes), the page life cycle of    *)
(* renderMarkdown together with the stand-alone script core/addTag.js, and *)
(* the copy buttons of addCodeCopyButtons / addCopyButtons.                *)
(*                                                                         *)
(* A JavaScript string is a sequence of one-character strings.             *)
(***************************************************************************)
EXTENDS Integers, Sequences, FiniteSets, TLC

VARIABLES
    impl, text, typed, once, twice, rwStage,   \* inline rewriter: copy used, input, results
    tree0, treeBefore, tree, textNodes, processed, walkPc, walks,  \* text-node walker
    page,                                      \* the page: scripts, document, timers
    buttons, pending, clicks, lastEvent,       \* copy buttons, clipboard writes
    hastBefore, hast, decorPc                  \* syntax tree under the decorators

rwVars   == <<impl, text, typed, once, twice, rwStage>>
walkVars == <<tree0, treeBefore, tree, textNodes, processed, walkPc, walks>>
copyVars == <<buttons, pending, clicks, lastEvent>>
decorVars == <<hastBefore, hast, decorPc>>
vars     == <<rwVars, walkVars, page, copyVars, decorVars>>

----------------------------------------------------------------------------
(* Strings *)

\* "abc" as a JavaScript string is <<"a","b","c">>
Concat3(a, b, c) == a \o b \o c

\* s.startsWith(p) at 1-based position i
MatchAt(s, p, i) ==
    /\ i >= 1
    /\ i + Len(p) - 1 <= Len(s)
    /\ \A k \in 1..Len(p) : s[i + k - 1] = p[k]

\* s.includes(p)
Includes(s, p) == \E i \in 1..(Len(s) + 1) : MatchAt(s, p, i)

\* s.endsWith(p)
EndsWith(s, p) == Len(p) <= Len(s) /\ MatchAt(s, p, Len(s) - Len(p) + 1)

\* the characters "." of a regular expression does not match
LineTerminators == {"\n", "\r"}

----------------------------------------------------------------------------
(* Regular expressions of the three rules: /open(.*?)close/g *)

markRegex  == [open |-> <<"=", "=">>, close |-> <<"=", "=">>]
superRegex == [open |-> <<"^">>,      close |-> <<"^">>]
subRegex   == [open |-> <<"_", "-">>, close |-> <<"-", "_">>]

\* the output tags
MarkOpen  == <<"<", "m", "a", "r", "k", ">">>
MarkClose == <<"<", "/", "m", "a", "r", "k", ">">>
SupOpen   == <<"<", "s", "u", "p", " ", "c", "l", "a", "s", "s", "=", "\"",
               "s", "u", "p", "t", "e", "x", "t", "\"", ">">>
SupClose  == <<"<", "/", "s", "u", "p", ">">>
SubOpen   == <<"<", "s", "u", "b", " ", "c", "l", "a", "s", "s", "=", "\"",
               "s", "u", "b", "t", "e", "x", "t", "\"", ">">>
SubClose  == <<"<", "/", "s", "u", "b", ">">>

\* a replacement string whose "$$1" stands for the two characters "$1"
markTemplate_escaped == Concat3(MarkOpen, <<"$", "$", "1">>, MarkClose)

\* the replacement strings of src/content.js: '<mark>$1</mark>', ...
markTemplate  == Concat3(MarkOpen, <<"$", "1">>, MarkClose)
superTemplate == Concat3(SupOpen,  <<"$", "1">>, SupClose)
subTemplate   == Concat3(SubOpen,  <<"$", "1">>, SubClose)

\* String.prototype.replace with a replacement string: "$1" stands for the
\* capture, "$$" for "$", any other character for itself.
RECURSIVE GetSubstitution(_, _, _)
GetSubstitution(template, capture, i) ==
    IF i > Len(template) THEN <<>>
    ELSE IF MatchAt(template, <<"$", "1">>, i)
         THEN capture \o GetSubstitution(template, capture, i + 2)
    ELSE IF MatchAt(template, <<"$", "$">>, i)
         THEN <<"$">> \o GetSubstitution(template, capture, i + 2)
    ELSE <<template[i]>> \o GetSubstitution(template, capture, i + 1)

\* a replacer that drops what the group captured
markReplace_empty(match, content) == MarkOpen \o MarkClose

\* the replacer callbacks of core/addTag.js: (match, content) => `<tag>${content}</tag>`
markReplace(match, content)  == Concat3(MarkOpen, content, MarkClose)
superReplace(match, content) == Concat3(SupOpen, content, SupClose)
subReplace(match, content)   == Concat3(SubOpen, content, SubClose)

\* what one match is replaced by: repl holds a replacement string
\* (content.js) or names a replacer callback (addTag.js)
Replacement(repl, match, content) ==
    CASE repl.callback = "markReplace"  -> markReplace(match, content)
      [] repl.callback = "superReplace" -> superReplace(match, content)
      [] repl.callback = "subReplace"   -> subReplace(match, content)
      [] OTHER -> GetSubstitution(repl.template, content, 1)

ByString(template) == [callback |-> "", template |-> template]
ByCallback(name)   == [callback |-> name, template |-> <<>>]

\* The lazy group (.*?) followed by the closing marker, tried from position j:
\* the least k >= j where the closing marker starts with no line terminator
\* in s[j..k-1]; 0 when there is none.
RECURSIVE FindClose(_, _, _)
FindClose(s, close, j) ==
    IF j + Len(close) - 1 > Len(s) THEN 0
    ELSE IF MatchAt(s, close, j) THEN j
    ELSE IF s[j] \in LineTerminators THEN 0
    ELSE FindClose(s, close, j + 1)

\* a greedy group (.*): the last closing marker of the line
MatchFrom_greedy(s, rx, i) ==
    LET j  == i + Len(rx.open)
        ks == {k \in j..Len(s) :
                  /\ MatchAt(s, rx.close, k)
                  /\ \A m \in j..(k - 1) : s[m] \notin LineTerminators}
    IN  IF MatchAt(s, rx.open, i) /\ ks # {}
        THEN CHOOSE k \in ks : \A m \in ks : m <= k
        ELSE 0

\* the position where the closing marker of a match starting at i starts, or 0
MatchFrom(s, rx, i) ==
    IF MatchAt(s, rx.open, i) THEN FindClose(s, rx.close, i + Len(rx.open)) ELSE 0

\* s.replace(/open(.*?)close/g, repl): scan left to right, a match is replaced
\* and the scan goes on after it, a position without a match is copied.
RECURSIVE ReplaceFrom(_, _, _, _)
ReplaceFrom(s, rx, repl, i) ==
    IF i > Len(s) THEN <<>>
    ELSE LET c == MatchFrom(s, rx, i) IN
         IF c > 0
         THEN LET last    == c + Len(rx.close) - 1
                  match   == SubSeq(s, i, last)
                  content == SubSeq(s, i + Len(rx.open), c - 1)
              IN  Replacement(repl, match, content) \o ReplaceFrom(s, rx, repl, last + 1)
         ELSE <<s[i]>> \o ReplaceFrom(s, rx, repl, i + 1)

\* src/content.js
addMarkTags(s)    == ReplaceFrom(s, markRegex,  ByString(markTemplate), 1)
addSuperScript(s) == ReplaceFrom(s, superRegex, ByString(superTemplate), 1)
addSubScript(s)   == ReplaceFrom(s, subRegex,   ByString(subTemplate), 1)

\* core/addTag.js
coreAddMarkTags(s)    == ReplaceFrom(s, markRegex,  ByCallback("markReplace"), 1)
coreAddSuperScript(s) == ReplaceFrom(s, superRegex, ByCallback("superReplace"), 1)
coreAddSubScript(s)   == ReplaceFrom(s, subRegex,   ByCallback("subReplace"), 1)

\* the rules without the superscript rule
Transform_skipSuper(s) == addSubScript(addMarkTags(s))

\* the three rules in the order both copies apply them to a text
Transform(s)     == addSubScript(addSuperScript(addMarkTags(s)))
coreTransform(s) == coreAddSubScript(coreAddSuperScript(coreAddMarkTags(s)))

\* one rule of one copy
Rules == {"mark", "sup", "sub"}
RewriteRule(which, rule, s) ==
    CASE which = "core" /\ rule = "mark" -> coreAddMarkTags(s)
      [] which = "core" /\ rule = "sup"  -> coreAddSuperScript(s)
      [] which = "core" /\ rule = "sub"  -> coreAddSubScript(s)
      [] which # "core" /\ rule = "mark" -> addMarkTags(s)
      [] which # "core" /\ rule = "sup"  -> addSuperScript(s)
      [] which # "core" /\ rule = "sub"  -> addSubScript(s)

Implementations == {"content", "core"}
InlineMarkupRewriter(which, s) ==
    IF which = "core" THEN coreTransform(s) ELSE Transform(s)

----------------------------------------------------------------------------
(* The rewriter applied to bounded inputs *)

\* pieces the input strings are typed from
Tokens == {<<"=", "=">>, <<"^">>, <<"_", "-">>, <<"-", "_">>, <<"x">>, <<"\n">>}
MaxTokens == 4

RwIdle ==
    /\ impl = "content" /\ text = <<>> /\ typed = 0
    /\ once = <<>> /\ twice = <<>> /\ rwStage = "off"

\* texts given whole
Str_price == <<"p", "r", "i", "c", "e", ":", " ", "^", "5", " ", "d", "o", "l", "l", "a", "r", "s">>
Str_carets == <<"a", "^", "b", "^", "c", "^", "d">>
Str_nested == <<"=", "=", "a", "^", "b", "^", "c", "=", "=">>
Str_dollar == <<"=", "=", "$", "1", "=", "=">>
Examples == {Str_price, Str_carets, Str_nested, Str_dollar}

\* the input is typed piece by piece or is one of the examples
RwInit ==
    /\ impl \in Implementations
    /\ text \in {<<>>} \cup Examples
    /\ typed = IF text = <<>> THEN 0 ELSE MaxTokens
    /\ once = <<>> /\ twice = <<>>
    /\ rwStage = "input"

\* one more piece of input
Type(t) ==
    /\ rwStage = "input"
    /\ typed < MaxTokens
    /\ text' = text \o t
    /\ typed' = typed + 1
    /\ UNCHANGED <<impl, once, twice, rwStage>>
    /\ UNCHANGED <<walkVars, page, copyVars, decorVars>>

\* content = addSubScript(addSuperScript(addMarkTags(content)))
Apply ==
    /\ rwStage = "input"
    /\ once' = InlineMarkupRewriter(impl, text)
    /\ rwStage' = "once"
    /\ UNCHANGED <<impl, text, typed, twice>>
    /\ UNCHANGED <<walkVars, page, copyVars, decorVars>>

\* the same three calls on the result
ApplyAgain ==
    /\ rwStage = "once"
    /\ twice' = InlineMarkupRewriter(impl, once)
    /\ rwStage' = "twice"
    /\ UNCHANGED <<impl, text, typed, once>>
    /\ UNCHANGED <<walkVars, page, copyVars, decorVars>>

\* one rule alone: addMarkTags(text), addSuperScript(text) or addSubScript(text)
ApplyRule(rule) ==
    /\ rwStage = "input"
    /\ once' = RewriteRule(impl, rule, text)
    /\ rwStage' = rule
    /\ UNCHANGED <<impl, text, typed, twice>>
    /\ UNCHANGED <<walkVars, page, copyVars, decorVars>>

RwNext ==
    \/ \E t \in Tokens : Type(t)
    \/ \E rule \in Rules : ApplyRule(rule)
    \/ Apply
    \/ ApplyAgain

----------------------------------------------------------------------------
(* DOM trees.  A node is a record; id > 0 names a node of the tree the walk  *)
(* started from, id < 0 a node created by a substitution (0 while it is      *)
(* still in the fragment).                                                   *)

TextNode(id, value) ==
    [type |-> "text", tag |-> "#text", attrs |-> <<>>, id |-> id,
     value |-> value, children |-> <<>>]

Element(tag, attrs, id, children) ==
    [type |-> "element", tag |-> tag, attrs |-> attrs, id |-> id,
     value |-> <<>>, children |-> children]

\* concatenation of a sequence of sequences
RECURSIVE Flatten(_)
Flatten(ss) == IF ss = <<>> THEN <<>> ELSE Head(ss) \o Flatten(Tail(ss))

\* the nodes of a subtree in document order (pre-order)
RECURSIVE Descendants(_)
Descendants(node) ==
    <<node>> \o Flatten([i \in 1..Len(node.children) |-> Descendants(node.children[i])])

Range(seq) == {seq[i] : i \in 1..Len(seq)}

\* node.textContent
RECURSIVE textContent(_)
textContent(node) ==
    IF node.type = "text" THEN node.value
    ELSE Flatten([i \in 1..Len(node.children) |-> textContent(node.children[i])])

----------------------------------------------------------------------------
(* tempDiv.innerHTML = content: the HTML fragment parser on the strings the  *)
(* rewriter produces (start tags, end tags, text; no comments, no character  *)
(* references, no void or raw-text elements).                                *)

Letters == {"a", "b", "c", "d", "e", "f", "g", "h", "i", "j", "k", "l", "m",
            "n", "o", "p", "q", "r", "s", "t", "u", "v", "w", "x", "y", "z"}

\* Element.tagName of an HTML element is the upper-cased name
TagName(name) ==
    CASE name = <<"m", "a", "r", "k">> -> "MARK"
      [] name = <<"s", "u", "p">>      -> "SUP"
      [] name = <<"s", "u", "b">>      -> "SUB"
      [] name = <<"c", "o", "d", "e">> -> "CODE"
      [] name = <<"p", "r", "e">>      -> "PRE"
      [] name = <<"b">>                -> "B"
      [] OTHER                         -> "UNKNOWN"

\* least k >= i with s[k] in stop, or Len(s) + 1
RECURSIVE Until(_, _, _)
Until(s, stop, i) ==
    IF i > Len(s) \/ s[i] \in stop THEN i ELSE Until(s, stop, i + 1)

\* the tokenizer at position i: a start tag, an end tag, or one character
TokenAt(s, i) ==
    LET isEnd   == MatchAt(s, <<"<", "/">>, i) /\ i + 2 <= Len(s) /\ s[i + 2] \in Letters
        isStart == s[i] = "<" /\ i + 1 <= Len(s) /\ s[i + 1] \in Letters
        from    == IF isEnd THEN i + 2 ELSE i + 1
        nameEnd == Until(s, {" ", "/", ">"}, from)
        gt      == Until(s, {">"}, from)
        afterNm == IF nameEnd < gt /\ s[nameEnd] = " " THEN nameEnd + 1 ELSE nameEnd
    IN  IF isEnd \/ isStart
        THEN [kind  |-> IF gt > Len(s) THEN "eof" ELSE IF isEnd THEN "end" ELSE "start",
              tag   |-> TagName(SubSeq(s, from, nameEnd - 1)),
              attrs |-> IF isStart THEN SubSeq(s, afterNm, gt - 1) ELSE <<>>,
              next  |-> gt + 1]
        ELSE [kind |-> "char", tag |-> "", attrs |-> <<>>, next |-> i + 1]

\* append one character to the children of an open element
AppendChar(children, c) ==
    IF children # <<>> /\ children[Len(children)].type = "text"
    THEN [children EXCEPT ![Len(children)].value = @ \o <<c>>]
    ELSE Append(children, TextNode(0, <<c>>))

\* close the innermost open element: it becomes the last child of the one below
PopOne(stack) ==
    LET n  == Len(stack)
        el == Element(stack[n].tag, stack[n].attrs, 0, stack[n].children)
    IN  [SubSeq(stack, 1, n - 1) EXCEPT ![n - 1].children = Append(@, el)]

RECURSIVE PopTo(_, _)
PopTo(stack, depth) == IF Len(stack) <= depth THEN stack ELSE PopTo(PopOne(stack), depth)

\* the tree builder: stack[1] is the fragment itself, the rest the open elements
RECURSIVE Build(_, _, _)
Build(s, i, stack) ==
    IF i > Len(s) THEN PopTo(stack, 1)[1].children
    ELSE LET tok == TokenAt(s, i) IN
         CASE tok.kind = "eof"   -> PopTo(stack, 1)[1].children
           [] tok.kind = "char"  ->
                Build(s, tok.next, [stack EXCEPT ![Len(stack)].children = AppendChar(@, s[i])])
           [] tok.kind = "start" ->
                Build(s, tok.next,
                      Append(stack, [tag |-> tok.tag, attrs |-> tok.attrs, children |-> <<>>]))
           [] tok.kind = "end"   ->
                LET open == {d \in 2..Len(stack) : stack[d].tag = tok.tag} IN
                IF open = {} THEN Build(s, tok.next, stack)
                ELSE LET d == CHOOSE x \in open : \A y \in open : y <= x
                     IN  Build(s, tok.next, PopTo(stack, d - 1))

\* the child nodes of tempDiv after tempDiv.innerHTML = s
ParseFragment(s) ==
    Build(s, 1, <<[tag |-> "#fragment", attrs |-> <<>>, children |-> <<>>]>>)

----------------------------------------------------------------------------
(* applyTextTransformationsToTextNodes(element) *)

Whitespace == {" ", "\n", "\r", "\t"}

\* !node.textContent.trim()
IsBlank(value) == \A i \in 1..Len(value) : value[i] \in Whitespace

\* the tags the function returns on when the element itself carries one
ExcludedTags == {"SCRIPT", "STYLE", "CODE", "PRE"}

\* acceptNode of the TreeWalker's filter, for a text node below parent
acceptNode(node, parentTag) ==
    IF IsBlank(node.value) \/ parentTag = "CODE" \/ parentTag = "PRE"
    THEN "FILTER_REJECT"
    ELSE "FILTER_ACCEPT"

\* walker.nextNode() until null, with whatToShow = SHOW_TEXT: elements are not
\* shown to the filter and their children are visited; the text nodes the
\* filter accepts, in document order.
RECURSIVE CollectTextNodes(_, _)
CollectTextNodes(node, parentTag) ==
    IF node.type = "text"
    THEN IF acceptNode(node, parentTag) = "FILTER_ACCEPT" THEN <<node.id>> ELSE <<>>
    ELSE Flatten([i \in 1..Len(node.children) |->
                     CollectTextNodes(node.children[i], node.tag)])

\* the node of the tree with this id
NodeById(root, id) ==
    LET all == Descendants(root)
    IN  all[CHOOSE i \in 1..Len(all) : all[i].id = id]

\* textNode.parentNode.replaceChild(fragment, textNode): the fragment's nodes
\* take the place of the text node among its parent's children
RECURSIVE replaceChild(_, _, _)
replaceChild(node, id, fragment) ==
    IF node.type = "text" THEN node
    ELSE [node EXCEPT !.children =
            Flatten([i \in 1..Len(node.children) |->
                        IF node.children[i].id = id THEN fragment
                        ELSE <<replaceChild(node.children[i], id, fragment)>>])]

\* the nodes the parser created are new objects: in document order they get
\* the ids first, first - 1, ...
RECURSIVE Created(_, _)
Created(nodes, first) ==
    IF nodes = <<>> THEN <<>>
    ELSE LET node == Head(nodes)
         IN  <<[node EXCEPT !.id = first,
                            !.children = Created(node.children, first - 1)]>> \o
             Created(Tail(nodes), first - Len(Descendants(node)))

\* the body of the forEach callback for one collected text node; the nodes
\* it creates get the ids below the least id of the tree
ProcessTextNode(root, id) ==
    LET originalContent == NodeById(root, id).value
        content         == Transform(originalContent)
        ids             == {0} \cup {n.id : n \in Range(Descendants(root))}
        leastId         == CHOOSE i \in ids : \A j \in ids : i <= j
    IN  IF content # originalContent
        THEN replaceChild(root, id, Created(ParseFragment(content), leastId - 1))
        ELSE root

\* whether the callback reaches tempDiv.innerHTML = content for this node
Changes(root, id) ==
    LET originalContent == NodeById(root, id).value
    IN  Transform(originalContent) # originalContent

\* textNodes.forEach(...): the callback on each node in order.  The callback
\* has no try/catch: an exception raised while substituting node `throwsAt`
\* (by the innerHTML setter or by replaceChild, both of which can raise a
\* DOMException) leaves forEach at once.  Only a node whose text changes
\* reaches those calls.
RECURSIVE forEach(_, _, _, _)
forEach(root, nodes, k, throwsAt) ==
    IF k > Len(nodes) THEN [tree |-> root, processed |-> k - 1, thrown |-> FALSE]
    ELSE IF nodes[k] = throwsAt /\ Changes(root, nodes[k])
         THEN [tree |-> root, processed |-> k - 1, thrown |-> TRUE]
         ELSE forEach(ProcessTextNode(root, nodes[k]), nodes, k + 1, throwsAt)

----------------------------------------------------------------------------
(* The walker on bounded trees *)

Str_mark  == <<"=", "=", "x", "=", "=">>
Str_sup   == <<"x", "^", "x", "^">>
Str_plain == <<"x">>
Str_blank == <<" ">>
\* the texts of the walked trees, "<b>^x^" and "==^===^===" among them
Texts == {Str_mark, Str_sup, Str_plain, Str_blank,
          <<"<", "b", ">", "^", "x", "^">>,
          <<"=", "=", "^", "=", "=", "=", "^", "=", "=", "=">>}

Shapes == {"text", "p", "inlinecode", "pre", "highlighted", "style"}

\* one child of the rendered container, its nodes numbered from base
Block(shape, t, base) ==
    CASE shape = "text"        -> TextNode(base + 1, t)
      [] shape = "p"           -> Element("P", <<>>, base + 1, <<TextNode(base + 2, t)>>)
      [] shape = "inlinecode"  ->
            Element("P", <<>>, base + 1,
                    <<Element("CODE", <<>>, base + 2, <<TextNode(base + 3, t)>>)>>)
      [] shape = "pre"         ->
            Element("PRE", <<>>, base + 1,
                    <<Element("CODE", <<>>, base + 2, <<TextNode(base + 3, t)>>)>>)
      [] shape = "highlighted" ->
            Element("PRE", <<>>, base + 1,
                    <<Element("CODE", <<>>, base + 2,
                              <<Element("SPAN", <<>>, base + 3,
                                        <<TextNode(base + 4, t)>>)>>)>>)
      [] shape = "style"       -> Element("STYLE", <<>>, base + 1, <<TextNode(base + 2, t)>>)

MaxBlocks == 2
MaxWalks == 2
BlockStride == 10

\* the elements the function is called on
RootTags == {"DIV", "PRE"}

InitialTrees ==
    {Element(root, <<>>, 1,
             [i \in 1..Len(choice) |->
                 Block(choice[i][1], choice[i][2], BlockStride * i)]) :
        root \in RootTags,
        choice \in UNION {[1..n -> Shapes \X Texts] : n \in 1..MaxBlocks}}

WalkIdle ==
    /\ tree0 = TextNode(0, <<>>) /\ tree = TextNode(0, <<>>)
    /\ treeBefore = TextNode(0, <<>>)
    /\ textNodes = <<>> /\ processed = <<>>
    /\ walkPc = "off" /\ walks = 0

WalkInit ==
    /\ tree0 \in InitialTrees
    /\ tree = tree0
    /\ treeBefore = tree0
    /\ textNodes = <<>> /\ processed = <<>>
    /\ walkPc = "ready" /\ walks = 0

\* one call of applyTextTransformationsToTextNodes(tree); the substitution of
\* node throwsAt (0: of no node) throws.  treeBefore is the tree the call
\* started on.
applyTextTransformationsToTextNodes(throwsAt) ==
    /\ walkPc \in {"ready", "done"}
    /\ walks < MaxWalks
    /\ walks' = walks + 1
    /\ treeBefore' = tree
    /\ IF tree.tag \in ExcludedTags
       THEN /\ textNodes' = <<>> /\ processed' = <<>>
            /\ tree' = tree
            /\ walkPc' = "done"
       ELSE LET nodes == CollectTextNodes(tree, "")
                r     == forEach(tree, nodes, 1, throwsAt)
            IN  /\ textNodes' = nodes
                /\ processed' = SubSeq(nodes, 1, r.processed)
                /\ tree' = r.tree
                /\ walkPc' = IF r.thrown THEN "thrown" ELSE "done"
    /\ UNCHANGED tree0
    /\ UNCHANGED <<rwVars, page, copyVars, decorVars>>

WalkNext ==
    \E throwsAt \in {0} \cup Range(CollectTextNodes(tree, "")) :
        applyTextTransformationsToTextNodes(throwsAt)

----------------------------------------------------------------------------
(* The page: src/content.js (renderMarkdown) and core/addTag.js as scripts   *)
(* of one page load, the 17 dynamic imports, the conversion, the timers.     *)
(* page is a record: the environment (pathname, hasPre, readyState,          *)
(* addTagPresent), where each script stands (contentPc, addTagPc), the       *)
(* imports (nLoaded, failedModule), the document (bodyDisplay, bodyContent,  *)
(* panel, headElements), the pending timers, the DOMContentLoaded listeners  *)
(* and, as history, the error thrown into renderMarkdown's try block and the *)
(* events so far.                                                            *)

Path_md       == <<"/", "n", ".", "m", "d">>
Path_markdown == <<"/", "n", ".", "m", "a", "r", "k", "d", "o", "w", "n">>
Path_mdown    == <<"/", "n", ".", "m", "d", "o", "w", "n">>
Path_txt      == <<"/", "n", ".", "t", "x", "t">>
Path_mdx      == <<"/", "n", ".", "m", "d", "x">>
Pathnames == {Path_md, Path_markdown, Path_mdown, Path_txt, Path_mdx}

\* window.location.pathname.endsWith('.md') || ... '.markdown' || ... '.mdown'
isMarkdownFile(pathname) ==
    \/ EndsWith(pathname, <<".", "m", "d">>)
    \/ EndsWith(pathname, <<".", "m", "a", "r", "k", "d", "o", "w", "n">>)
    \/ EndsWith(pathname, <<".", "m", "d", "o", "w", "n">>)

\* the imports of loadModules' Promise.all
NumModules == 17

\* an Error object
Error(message) == [message |-> message, stack |-> <<"Error", message>>]
NoError == Error(<<"", 0>>)

\* the rejection of import number i
ImportError(i) == Error(<<"Failed to fetch dynamically imported module", i>>)

LoadErrorMessage == <<"Could not load required markdown processing modules", 0>>

\* what processor.process can throw
ConversionErrors == {Error(<<"Cannot process file", k>>) : k \in 1..2}

\* the elements the template assigned to document.documentElement.innerHTML
\* puts in the head
TemplateHead == {"meta-charset", "shortcut-icon", "meta-viewport", "font-awesome",
                 "style.css", "title"}

Log(pg, event) == [pg EXCEPT !.events = Append(@, event)]

\* a loadModules that lets the import's own rejection through
loadModules_rethrow(error) == error

\* loadModules' catch block: logs the failure and throws a new Error
loadModules_catch(error) == Error(LoadErrorMessage)

\* a catch block that fills the panel in and leaves the body hidden
renderMarkdown_catch_hidden(pg, error) ==
    [pg EXCEPT !.bodyContent = "error",
               !.panel = [message |-> error.message, details |-> error.stack],
               !.contentPc = "error"]

\* renderMarkdown's catch block
renderMarkdown_catch(pg, error) ==
    [pg EXCEPT !.bodyDisplay = "block",
               !.bodyContent = "error",
               !.panel = [message |-> error.message, details |-> error.stack],
               !.contentPc = "error"]

\* renderMarkdown up to its first await: the two early returns, the hidden
\* body, the placeholder, the call of loadModules
renderMarkdown(pg) ==
    IF ~pg.hasPre THEN [pg EXCEPT !.contentPc = "returned"]
    ELSE IF ~isMarkdownFile(pg.pathname) THEN [pg EXCEPT !.contentPc = "returned"]
    ELSE [pg EXCEPT !.bodyDisplay = "none",
                    !.bodyContent = "placeholder",
                    !.contentPc = "loading"]

\* a chain in which the two decorators are attached before the highlighter
processor_decoratorsFirst ==
    <<"remarkParse", "remarkGfm", "remarkFrontmatter",
      "remarkGithubAdmonitionsToDirectives", "remarkDirective", "remarkToc",
      "sectionize", "remarkTextr", "a11yEmoji", "remarkIns", "remarkSupersub",
      "remarkRehype", "rehypeSlug", "rehypeAutolinkHeadings",
      "rehypeCodeLanguageIcons", "rehypeAdmonitions", "rehypeHighlight",
      "rehypeStringify">>

\* unified().use(...)...: the plugins in the order they are attached, which is
\* the order the processor runs them in
processor ==
    <<"remarkParse", "remarkGfm", "remarkFrontmatter",
      "remarkGithubAdmonitionsToDirectives", "remarkDirective", "remarkToc",
      "sectionize", "remarkTextr", "a11yEmoji", "remarkIns", "remarkSupersub",
      "remarkRehype", "rehypeSlug", "rehypeAutolinkHeadings", "rehypeHighlight",
      "rehypeCodeLanguageIcons", "rehypeAdmonitions", "rehypeStringify">>

\* renderMarkdown after loadModules resolved: the processor is built and
\* processor.process(rawMarkdown) is awaited
renderMarkdown_process(pg) ==
    [Log(Log(pg, "processor"), "process") EXCEPT !.contentPc = "converting",
                                                 !.plugins = processor]

\* a renderMarkdown that walks the container at once, before the copy buttons
renderMarkdown_render_walkFirst(pg) ==
    LET injected == [Log(pg, "inject") EXCEPT !.headElements = TemplateHead,
                                              !.bodyContent = "rendered",
                                              !.bodyDisplay = ""]
        linked   == [injected EXCEPT !.headElements = @ \cup {"extension-style.css"}]
        walked   == Log(linked, "walk container by renderMarkdown")
        withBtns == Log(walked, "addCodeCopyButtons")
    IN  [withBtns EXCEPT !.bodyDisplay = "block", !.contentPc = "rendered"]

\* a renderMarkdown whose success path ends without showing the body
renderMarkdown_render_noShow(pg) ==
    LET injected == [Log(pg, "inject") EXCEPT !.headElements = TemplateHead,
                                              !.bodyContent = "rendered",
                                              !.bodyDisplay = ""]
        linked   == [injected EXCEPT !.headElements = @ \cup {"extension-style.css"}]
        withBtns == Log(linked, "addCodeCopyButtons")
        timed    == [withBtns EXCEPT !.timers = @ \cup {"renderMarkdown"}]
    IN  [timed EXCEPT !.contentPc = "rendered"]

\* renderMarkdown after processor.process resolved: the document is replaced,
\* the stylesheet link appended, the copy buttons attached, the walker's timer
\* set, the body shown
renderMarkdown_render(pg) ==
    LET injected == [Log(pg, "inject") EXCEPT !.headElements = TemplateHead,
                                              !.bodyContent = "rendered",
                                              !.bodyDisplay = ""]
        linked   == [injected EXCEPT !.headElements = @ \cup {"extension-style.css"}]
        withBtns == Log(linked, "addCodeCopyButtons")
        timed    == [withBtns EXCEPT !.timers = @ \cup {"renderMarkdown"}]
    IN  [timed EXCEPT !.bodyDisplay = "block", !.contentPc = "rendered"]

\* the callback of renderMarkdown's setTimeout
renderMarkdown_timeout(pg) ==
    IF pg.bodyContent = "rendered"
    THEN Log(pg, "walk container by renderMarkdown")
    ELSE pg

\* core/addTag.js
injectTextTransformationStyles(pg) ==
    IF "text-transformation-styles" \in pg.headElements THEN pg
    ELSE [pg EXCEPT !.headElements = @ \cup {"text-transformation-styles"}]

applySafeTextTransformations(pg) ==
    [pg EXCEPT !.timers = @ \cup {"applySafeTextTransformations"},
               !.addTagPc = "scheduled"]

\* the callback of applySafeTextTransformations' setTimeout
applySafeTextTransformations_timeout(pg) ==
    [(IF pg.bodyContent = "rendered"
      THEN Log(pg, "walk container by applySafeTextTransformations")
      ELSE Log(pg, "walk body by applySafeTextTransformations"))
     EXCEPT !.addTagPc = "fired"]

initializeTextTransformations(pg) ==
    IF isMarkdownFile(pg.pathname)
    THEN IF pg.readyState = "loading"
         THEN [pg EXCEPT !.listeners = Append(@, "applySafeTextTransformations"),
                         !.addTagPc = "listening"]
         ELSE applySafeTextTransformations(pg)
    ELSE [pg EXCEPT !.addTagPc = "inactive"]

\* a DOMContentLoaded listener
Listener(pg, name) ==
    IF name = "renderMarkdown" THEN renderMarkdown(pg)
    ELSE applySafeTextTransformations(pg)

RECURSIVE Dispatch(_, _)
Dispatch(pg, listeners) ==
    IF listeners = <<>> THEN pg
    ELSE Dispatch(Listener(pg, Head(listeners)), Tail(listeners))

PageIdle == page = [contentPc |-> "off"]

PageInit ==
    \E pathname \in Pathnames, hasPre \in BOOLEAN, addTagPresent \in BOOLEAN,
       readyState \in {"loading", "complete"} :
        page = [pathname |-> pathname, hasPre |-> hasPre,
                addTagPresent |-> addTagPresent, readyState |-> readyState,
                contentPc |-> "notrun",
                addTagPc |-> IF addTagPresent THEN "notrun" ELSE "absent",
                listeners |-> <<>>,
                nLoaded |-> 0, failedModule |-> 0,
                bodyDisplay |-> "", bodyContent |-> "source",
                panel |-> [message |-> NoError.message, details |-> NoError.stack],
                headElements |-> {},
                timers |-> {},
                thrown |-> NoError,
                plugins |-> <<>>, ran |-> <<>>,
                events |-> <<>>]

\* the top level of src/content.js
ContentScript ==
    /\ page.contentPc = "notrun"
    /\ page' = IF page.readyState = "loading"
               THEN [page EXCEPT !.listeners = Append(@, "renderMarkdown"),
                                 !.contentPc = "listening"]
               ELSE renderMarkdown(page)
    /\ UNCHANGED <<rwVars, walkVars, copyVars, decorVars>>

\* the top level of core/addTag.js
AddTagScript ==
    /\ page.addTagPc = "notrun"
    /\ page' = initializeTextTransformations(injectTextTransformationStyles(page))
    /\ UNCHANGED <<rwVars, walkVars, copyVars, decorVars>>

DOMContentLoaded ==
    /\ page.readyState = "loading"
    /\ page' = [Dispatch([page EXCEPT !.readyState = "interactive"], page.listeners)
                EXCEPT !.listeners = <<>>]
    /\ UNCHANGED <<rwVars, walkVars, copyVars, decorVars>>

\* one import fulfils; with the last one Promise.all and loadModules resolve
ImportFulfilled ==
    /\ page.contentPc = "loading"
    /\ page.nLoaded < NumModules
    /\ LET pg == [page EXCEPT !.nLoaded = @ + 1] IN
       page' = IF pg.nLoaded = NumModules THEN renderMarkdown_process(pg) ELSE pg
    /\ UNCHANGED <<rwVars, walkVars, copyVars, decorVars>>

\* import number i rejects: Promise.all rejects, loadModules' catch throws,
\* renderMarkdown's catch runs
ImportRejected(i) ==
    /\ page.contentPc = "loading"
    /\ page.nLoaded < NumModules
    /\ LET error == loadModules_catch(ImportError(i)) IN
       page' = renderMarkdown_catch([page EXCEPT !.failedModule = i, !.thrown = error],
                                    error)
    /\ UNCHANGED <<rwVars, walkVars, copyVars, decorVars>>

\* processor.process resolves: every plugin of the chain has run
ProcessFulfilled ==
    /\ page.contentPc = "converting"
    /\ page' = renderMarkdown_render([page EXCEPT !.ran = page.plugins])
    /\ UNCHANGED <<rwVars, walkVars, copyVars, decorVars>>

\* processor.process rejects: plugin number k of the chain threw
ProcessRejected(error) ==
    /\ page.contentPc = "converting"
    /\ \E k \in 1..Len(page.plugins) :
          page' = renderMarkdown_catch(
                      [page EXCEPT !.thrown = error,
                                   !.ran = SubSeq(page.plugins, 1, k)], error)
    /\ UNCHANGED <<rwVars, walkVars, copyVars, decorVars>>

RenderTimeout ==
    /\ "renderMarkdown" \in page.timers
    /\ page' = renderMarkdown_timeout([page EXCEPT !.timers = @ \ {"renderMarkdown"}])
    /\ UNCHANGED <<rwVars, walkVars, copyVars, decorVars>>

AddTagTimeout ==
    /\ "applySafeTextTransformations" \in page.timers
    /\ page' = applySafeTextTransformations_timeout(
                  [page EXCEPT !.timers = @ \ {"applySafeTextTransformations"}])
    /\ UNCHANGED <<rwVars, walkVars, copyVars, decorVars>>

PageNext ==
    \/ ContentScript
    \/ AddTagScript
    \/ DOMContentLoaded
    \/ ImportFulfilled
    \/ \E i \in 1..NumModules : ImportRejected(i)
    \/ ProcessFulfilled
    \/ \E error \in ConversionErrors : ProcessRejected(error)
    \/ RenderTimeout
    \/ AddTagTimeout

----------------------------------------------------------------------------
(* Copy buttons: addCodeCopyButtons (src/content.js) and addCopyButtons      *)
(* (core/copyCode.js).  A button is its icon (innerHTML), its 'copied'       *)
(* class and its running 2-second timers; pending[b] counts the clipboard    *)
(* writes of button b that have not settled.                                 *)

CopyImpls == {"addCodeCopyButtons", "addCopyButtons"}
NumButtons == 2
MaxClicks == 3
Buttons == 1..NumButtons

\* the button as the forEach callback leaves it
NewButton(by) ==
    [by |-> by, icon |-> "defaultSVG", copied |-> FALSE,
     timers |-> [success |-> 0, failure |-> 0]]

\* after `await navigator.clipboard.writeText(...)` / the `.then` callback
OnWriteFulfilled(btn) ==
    IF btn.by = "addCodeCopyButtons"
    THEN [btn EXCEPT !.icon = "successSVG", !.copied = TRUE, !.timers.success = @ + 1]
    ELSE [btn EXCEPT !.icon = "successSVG", !.timers.success = @ + 1]

\* the catch block of addCodeCopyButtons' handler; addCopyButtons' promise
\* chain has no rejection handler
OnWriteRejected(btn) ==
    IF btn.by = "addCodeCopyButtons"
    THEN [btn EXCEPT !.icon = "fa-times", !.timers.failure = @ + 1]
    ELSE btn

\* setTimeout callbacks that restore the icon and leave the class list alone
OnTimeout_keepCopied(btn, kind) ==
    [btn EXCEPT !.icon = "defaultSVG", !.timers[kind] = @ - 1]

\* the setTimeout callbacks
OnTimeout(btn, kind) ==
    IF btn.by = "addCodeCopyButtons" /\ kind = "success"
    THEN [btn EXCEPT !.icon = "defaultSVG", !.copied = FALSE, !.timers.success = @ - 1]
    ELSE [btn EXCEPT !.icon = "defaultSVG", !.timers[kind] = @ - 1]

NoEvent == [type |-> "none", button |-> 0]

CopyIdle ==
    /\ buttons = <<>> /\ pending = <<>> /\ clicks = 0 /\ lastEvent = NoEvent

CopyInit ==
    /\ \E by \in CopyImpls : buttons = [b \in Buttons |-> NewButton(by)]
    /\ pending = [b \in Buttons |-> 0]
    /\ clicks = 0
    /\ lastEvent = NoEvent

\* the click handler up to the clipboard write
Click(b) ==
    /\ clicks < MaxClicks
    /\ clicks' = clicks + 1
    /\ pending' = [pending EXCEPT ![b] = @ + 1]
    /\ lastEvent' = [type |-> "click", button |-> b]
    /\ UNCHANGED buttons
    /\ UNCHANGED <<rwVars, walkVars, page, decorVars>>

WriteFulfilled(b) ==
    /\ pending[b] > 0
    /\ pending' = [pending EXCEPT ![b] = @ - 1]
    /\ buttons' = [buttons EXCEPT ![b] = OnWriteFulfilled(@)]
    /\ lastEvent' = [type |-> "fulfilled", button |-> b]
    /\ UNCHANGED clicks
    /\ UNCHANGED <<rwVars, walkVars, page, decorVars>>

WriteRejected(b) ==
    /\ pending[b] > 0
    /\ pending' = [pending EXCEPT ![b] = @ - 1]
    /\ buttons' = [buttons EXCEPT ![b] = OnWriteRejected(@)]
    /\ lastEvent' = [type |-> "rejected", button |-> b]
    /\ UNCHANGED clicks
    /\ UNCHANGED <<rwVars, walkVars, page, decorVars>>

Timeout(b, kind) ==
    /\ buttons[b].timers[kind] > 0
    /\ buttons' = [buttons EXCEPT ![b] = OnTimeout(@, kind)]
    /\ lastEvent' = [type |-> "timeout", button |-> b]
    /\ UNCHANGED <<pending, clicks>>
    /\ UNCHANGED <<rwVars, walkVars, page, decorVars>>

CopyNext ==
    \/ \E b \in Buttons : Click(b)
    \/ \E b \in Buttons : WriteFulfilled(b)
    \/ \E b \in Buttons : WriteRejected(b)
    \/ \E b \in Buttons, kind \in {"success", "failure"} : Timeout(b, kind)

----------------------------------------------------------------------------
(* Tree decorators: visit, rehypeCodeLanguageIcons, rehypeAdmonitions *)

\* a property that is set, and one that is undefined
Some(v) == <<v>>
None == <<>>

LowerLetters == <<"a", "b", "c", "d", "e", "f", "g", "h", "i", "j", "k", "l", "m", "n", "o", "p", "q", "r", "s", "t", "u", "v", "w", "x", "y", "z">>
UpperLetters == <<"A", "B", "C", "D", "E", "F", "G", "H", "I", "J", "K", "L", "M", "N", "O", "P", "Q", "R", "S", "T", "U", "V", "W", "X", "Y", "Z">>

\* String.prototype.toLowerCase, toUpperCase (ASCII)
toLowerCase(s) ==
    [i \in 1..Len(s) |->
        IF \E k \in 1..26 : UpperLetters[k] = s[i]
        THEN LowerLetters[CHOOSE k \in 1..26 : UpperLetters[k] = s[i]]
        ELSE s[i]]

toUpperCase(s) ==
    [i \in 1..Len(s) |->
        IF \E k \in 1..26 : LowerLetters[k] = s[i]
        THEN UpperLetters[CHOOSE k \in 1..26 : LowerLetters[k] = s[i]]
        ELSE s[i]]

\* s.startsWith(p)
startsWith(s, p) == MatchAt(s, p, 1)

\* s.replace(p, r) with a string pattern: the first occurrence only
replaceString(s, p, r) ==
    IF ~Includes(s, p) THEN s
    ELSE LET i == CHOOSE k \in 1..(Len(s) + 1) :
                      MatchAt(s, p, k) /\ \A m \in 1..(k - 1) : ~MatchAt(s, p, m)
         IN  Concat3(SubSeq(s, 1, i - 1), r, SubSeq(s, i + Len(p), Len(s)))

\* s.split(" ")
RECURSIVE splitOnSpace(_)
splitOnSpace(s) ==
    IF \A i \in 1..Len(s) : s[i] # " " THEN <<s>>
    ELSE LET i == CHOOSE k \in 1..Len(s) :
                      s[k] = " " /\ \A m \in 1..(k - 1) : s[m] # " "
         IN  <<SubSeq(s, 1, i - 1)>> \o splitOnSpace(SubSeq(s, i + 1, Len(s)))

\* type.charAt(0).toUpperCase() + type.slice(1)
capitalize(s) ==
    IF s = <<>> THEN <<>> ELSE toUpperCase(<<s[1]>>) \o SubSeq(s, 2, Len(s))

\* an object literal: its own properties, in source order
languageIcons == <<
    <<<<"j", "a", "v", "a", "s", "c", "r", "i", "p", "t">>,
      <<"f", "a", "b", " ", "f", "a", "-", "j", "s", "-", "s", "q", "u", "a", "r", "e">>>>,
    <<<<"j", "s">>,
      <<"f", "a", "b", " ", "f", "a", "-", "j", "s", "-", "s", "q", "u", "a", "r", "e">>>>,
    <<<<"t", "y", "p", "e", "s", "c", "r", "i", "p", "t">>,
      <<"f", "a", "b", " ", "f", "a", "-", "j", "s", "-", "s", "q", "u", "a", "r", "e">>>>,
    <<<<"t", "s">>,
      <<"f", "a", "b", " ", "f", "a", "-", "j", "s", "-", "s", "q", "u", "a", "r", "e">>>>,
    <<<<"p", "y", "t", "h", "o", "n">>,
      <<"f", "a", "b", " ", "f", "a", "-", "p", "y", "t", "h", "o", "n">>>>,
    <<<<"p", "y">>,
      <<"f", "a", "b", " ", "f", "a", "-", "p", "y", "t", "h", "o", "n">>>>,
    <<<<"j", "a", "v", "a">>,
      <<"f", "a", "b", " ", "f", "a", "-", "j", "a", "v", "a">>>>,
    <<<<"p", "h", "p">>,
      <<"f", "a", "b", " ", "f", "a", "-", "p", "h", "p">>>>,
    <<<<"h", "t", "m", "l">>,
      <<"f", "a", "b", " ", "f", "a", "-", "h", "t", "m", "l", "5">>>>,
    <<<<"c", "s", "s">>,
      <<"f", "a", "b", " ", "f", "a", "-", "c", "s", "s", "3", "-", "a", "l", "t">>>>,
    <<<<"s", "c", "s", "s">>,
      <<"f", "a", "b", " ", "f", "a", "-", "s", "a", "s", "s">>>>,
    <<<<"s", "a", "s", "s">>,
      <<"f", "a", "b", " ", "f", "a", "-", "s", "a", "s", "s">>>>,
    <<<<"l", "e", "s", "s">>,
      <<"f", "a", "b", " ", "f", "a", "-", "l", "e", "s", "s">>>>,
    <<<<"r", "e", "a", "c", "t">>,
      <<"f", "a", "b", " ", "f", "a", "-", "r", "e", "a", "c", "t">>>>,
    <<<<"j", "s", "x">>,
      <<"f", "a", "b", " ", "f", "a", "-", "r", "e", "a", "c", "t">>>>,
    <<<<"v", "u", "e">>,
      <<"f", "a", "b", " ", "f", "a", "-", "v", "u", "e", "j", "s">>>>,
    <<<<"a", "n", "g", "u", "l", "a", "r">>,
      <<"f", "a", "b", " ", "f", "a", "-", "a", "n", "g", "u", "l", "a", "r">>>>,
    <<<<"n", "o", "d", "e">>,
      <<"f", "a", "b", " ", "f", "a", "-", "n", "o", "d", "e", "-", "j", "s">>>>,
    <<<<"n", "o", "d", "e", "j", "s">>,
      <<"f", "a", "b", " ", "f", "a", "-", "n", "o", "d", "e", "-", "j", "s">>>>,
    <<<<"n", "p", "m">>,
      <<"f", "a", "b", " ", "f", "a", "-", "n", "p", "m">>>>,
    <<<<"y", "a", "r", "n">>,
      <<"f", "a", "b", " ", "f", "a", "-", "y", "a", "r", "n">>>>,
    <<<<"d", "o", "c", "k", "e", "r">>,
      <<"f", "a", "b", " ", "f", "a", "-", "d", "o", "c", "k", "e", "r">>>>,
    <<<<"g", "i", "t">>,
      <<"f", "a", "b", " ", "f", "a", "-", "g", "i", "t", "-", "a", "l", "t">>>>,
    <<<<"g", "i", "t", "h", "u", "b">>,
      <<"f", "a", "b", " ", "f", "a", "-", "g", "i", "t", "h", "u", "b">>>>,
    <<<<"g", "i", "t", "l", "a", "b">>,
      <<"f", "a", "b", " ", "f", "a", "-", "g", "i", "t", "l", "a", "b">>>>,
    <<<<"b", "i", "t", "b", "u", "c", "k", "e", "t">>,
      <<"f", "a", "b", " ", "f", "a", "-", "b", "i", "t", "b", "u", "c", "k", "e", "t">>>>,
    <<<<"g", "o">>,
      <<"f", "a", "s", " ", "f", "a", "-", "c", "o", "d", "e">>>>,
    <<<<"g", "o", "l", "a", "n", "g">>,
      <<"f", "a", "s", " ", "f", "a", "-", "c", "o", "d", "e">>>>,
    <<<<"r", "u", "s", "t">>,
      <<"f", "a", "s", " ", "f", "a", "-", "c", "o", "g">>>>,
    <<<<"c", "p", "p">>,
      <<"f", "a", "s", " ", "f", "a", "-", "c", "o", "d", "e">>>>,
    <<<<"c", "+", "+">>,
      <<"f", "a", "s", " ", "f", "a", "-", "c", "o", "d", "e">>>>,
    <<<<"c">>,
      <<"f", "a", "s", " ", "f", "a", "-", "c", "o", "d", "e">>>>,
    <<<<"c", "s", "h", "a", "r", "p">>,
      <<"f", "a", "s", " ", "f", "a", "-", "c", "o", "d", "e">>>>,
    <<<<"c", "#">>,
      <<"f", "a", "s", " ", "f", "a", "-", "c", "o", "d", "e">>>>,
    <<<<"s", "w", "i", "f", "t">>,
      <<"f", "a", "b", " ", "f", "a", "-", "s", "w", "i", "f", "t">>>>,
    <<<<"k", "o", "t", "l", "i", "n">>,
      <<"f", "a", "s", " ", "f", "a", "-", "c", "o", "d", "e">>>>,
    <<<<"r", "u", "b", "y">>,
      <<"f", "a", "s", " ", "f", "a", "-", "g", "e", "m">>>>,
    <<<<"r", "b">>,
      <<"f", "a", "s", " ", "f", "a", "-", "g", "e", "m">>>>,
    <<<<"s", "h", "e", "l", "l">>,
      <<"f", "a", "s", " ", "f", "a", "-", "t", "e", "r", "m", "i", "n", "a", "l">>>>,
    <<<<"b", "a", "s", "h">>,
      <<"f", "a", "s", " ", "f", "a", "-", "t", "e", "r", "m", "i", "n", "a", "l">>>>,
    <<<<"s", "h">>,
      <<"f", "a", "s", " ", "f", "a", "-", "t", "e", "r", "m", "i", "n", "a", "l">>>>,
    <<<<"p", "o", "w", "e", "r", "s", "h", "e", "l", "l">>,
      <<"f", "a", "s", " ", "f", "a", "-", "t", "e", "r", "m", "i", "n", "a", "l">>>>,
    <<<<"s", "q", "l">>,
      <<"f", "a", "s", " ", "f", "a", "-", "d", "a", "t", "a", "b", "a", "s", "e">>>>,
    <<<<"m", "y", "s", "q", "l">>,
      <<"f", "a", "s", " ", "f", "a", "-", "d", "a", "t", "a", "b", "a", "s", "e">>>>,
    <<<<"p", "o", "s", "t", "g", "r", "e", "s", "q", "l">>,
      <<"f", "a", "s", " ", "f", "a", "-", "d", "a", "t", "a", "b", "a", "s", "e">>>>,
    <<<<"m", "o", "n", "g", "o", "d", "b">>,
      <<"f", "a", "s", " ", "f", "a", "-", "d", "a", "t", "a", "b", "a", "s", "e">>>>,
    <<<<"j", "s", "o", "n">>,
      <<"f", "a", "s", " ", "f", "a", "-", "f", "i", "l", "e", "-", "c", "o", "d", "e">>>>,
    <<<<"x", "m", "l">>,
      <<"f", "a", "s", " ", "f", "a", "-", "c", "o", "d", "e">>>>,
    <<<<"y", "a", "m", "l">>,
      <<"f", "a", "s", " ", "f", "a", "-", "f", "i", "l", "e", "-", "c", "o", "d", "e">>>>,
    <<<<"y", "m", "l">>,
      <<"f", "a", "s", " ", "f", "a", "-", "f", "i", "l", "e", "-", "c", "o", "d", "e">>>>,
    <<<<"t", "o", "m", "l">>,
      <<"f", "a", "s", " ", "f", "a", "-", "f", "i", "l", "e", "-", "c", "o", "d", "e">>>>,
    <<<<"i", "n", "i">>,
      <<"f", "a", "s", " ", "f", "a", "-", "f", "i", "l", "e", "-", "c", "o", "d", "e">>>>,
    <<<<"m", "a", "r", "k", "d", "o", "w", "n">>,
      <<"f", "a", "b", " ", "f", "a", "-", "m", "a", "r", "k", "d", "o", "w", "n">>>>,
    <<<<"m", "d">>,
      <<"f", "a", "b", " ", "f", "a", "-", "m", "a", "r", "k", "d", "o", "w", "n">>>>,
    <<<<"t", "e", "x", "t">>,
      <<"f", "a", "s", " ", "f", "a", "-", "f", "i", "l", "e", "-", "a", "l", "t">>>>,
    <<<<"t", "x", "t">>,
      <<"f", "a", "s", " ", "f", "a", "-", "f", "i", "l", "e", "-", "a", "l", "t">>>>,
    <<<<"d", "e", "f", "a", "u", "l", "t">>,
      <<"f", "a", "s", " ", "f", "a", "-", "c", "o", "d", "e">>>>
>>

\* the properties every object literal inherits from Object.prototype
ObjectPrototype == {
    <<"c", "o", "n", "s", "t", "r", "u", "c", "t", "o", "r">>,
    <<"_", "_", "p", "r", "o", "t", "o", "_", "_">>,
    <<"h", "a", "s", "O", "w", "n", "P", "r", "o", "p", "e", "r", "t", "y">>,
    <<"i", "s", "P", "r", "o", "t", "o", "t", "y", "p", "e", "O", "f">>,
    <<"p", "r", "o", "p", "e", "r", "t", "y", "I", "s", "E", "n", "u", "m", "e", "r", "a", "b", "l", "e">>,
    <<"t", "o", "L", "o", "c", "a", "l", "e", "S", "t", "r", "i", "n", "g">>,
    <<"t", "o", "S", "t", "r", "i", "n", "g">>,
    <<"v", "a", "l", "u", "e", "O", "f">>
}

\* object[key]: an own property, else an inherited one (a function or an
\* object, never a string), else undefined
Get(object, key) ==
    IF \E i \in 1..Len(object) : object[i][1] = key
    THEN [kind  |-> "string",
          value |-> object[CHOOSE i \in 1..Len(object) : object[i][1] = key][2]]
    ELSE IF key \in ObjectPrototype
         THEN [kind |-> "inherited", value |-> <<>>]
         ELSE [kind |-> "undefined", value |-> <<>>]

\* languageIcons[language] || languageIcons.default
iconClass(language) ==
    LET entry == Get(languageIcons, language)
    IN  IF entry.kind = "undefined" \/ (entry.kind = "string" /\ entry.value = <<>>)
        THEN Get(languageIcons, <<"d", "e", "f", "a", "u", "l", "t">>)
        ELSE entry

\* nodes of the syntax tree; id > 0 names a node of the parsed tree, 0 a node
\* a decorator created.  properties is the element's property bag, data the
\* node's data.value
NoProperties == [className |-> None, dataLanguage |-> None, title |-> None]

HastText(value, id) ==
    [type |-> "text", tagName |-> "", name |-> <<>>, properties |-> NoProperties,
     data |-> None, value |-> value, children |-> <<>>, id |-> id]

HastElement(tagName, className, children, id) ==
    [type |-> "element", tagName |-> tagName, name |-> <<>>,
     properties |-> [NoProperties EXCEPT !.className = className],
     data |-> None, value |-> <<>>, children |-> children, id |-> id]

ContainerDirective(name, children, id) ==
    [type |-> "containerDirective", tagName |-> "", name |-> name,
     properties |-> NoProperties,
     data |-> None, value |-> <<>>, children |-> children, id |-> id]

HastRoot(children) ==
    [type |-> "root", tagName |-> "", name |-> <<>>, properties |-> NoProperties,
     data |-> None, value |-> <<>>, children |-> children, id |-> 1]

\* the outcome of a callback or of a traversal: the node as it was left and
\* whether an exception escaped
Returned(node) == [node |-> node, thrown |-> FALSE]
Thrown(node)   == [node |-> node, thrown |-> TRUE]

IsCode(child) == child.type = "element" /\ child.tagName = "code"

\* node.children.find(child => child.type === 'element' && child.tagName === 'code')
findCode(node) ==
    IF \E i \in 1..Len(node.children) : IsCode(node.children[i])
    THEN Some(node.children[CHOOSE i \in 1..Len(node.children) :
                  /\ IsCode(node.children[i])
                  /\ \A m \in 1..(i - 1) : ~IsCode(node.children[m])])
    ELSE None

\* className.find(cls => cls.startsWith('language-'))
findLanguageClass_any(className) ==
    IF className = <<>> THEN None ELSE Some(className[1])
findLanguageClass(className) ==
    IF \E i \in 1..Len(className) : startsWith(className[i], <<"l", "a", "n", "g", "u", "a", "g", "e", "-">>)
    THEN Some(className[CHOOSE i \in 1..Len(className) :
                  /\ startsWith(className[i], <<"l", "a", "n", "g", "u", "a", "g", "e", "-">>)
                  /\ \A m \in 1..(i - 1) : ~startsWith(className[m], <<"l", "a", "n", "g", "u", "a", "g", "e", "-">>)])
    ELSE None

\* the icon element built for a language
languageIcon(icon, language) ==
    HastElement("div", Some(<<<<"l", "a", "n", "g", "u", "a", "g", "e", "-", "i", "c", "o", "n">>>>),
        <<[HastElement("i", Some(splitOnSpace(icon)), <<>>, 0)
              EXCEPT !.properties.title = Some(toUpperCase(language))]>>,
        0)

\* the callback rehypeCodeLanguageIcons passes to visit
rehypeCodeLanguageIcons_callback(node) ==
    IF ~(node.type = "element" /\ node.tagName = "pre") THEN Returned(node)
    ELSE
    LET codeElement == findCode(node)
    IN  IF codeElement = None \/ codeElement[1].properties.className = None
        THEN Returned(node)
        ELSE
        LET languageClass == findLanguageClass(codeElement[1].properties.className[1])
        IN  IF languageClass = None \/ languageClass[1] = <<>> THEN Returned(node)
            ELSE
            LET language == toLowerCase(replaceString(languageClass[1], <<"l", "a", "n", "g", "u", "a", "g", "e", "-">>, <<>>))
                icon     == iconClass(language)
                classes  == IF node.properties.className = None
                            THEN <<>> ELSE node.properties.className[1]
                marked   == [node EXCEPT
                               !.properties.className = Some(Append(classes, <<"h", "a", "s", "-", "l", "a", "n", "g", "u", "a", "g", "e">>)),
                               !.properties.dataLanguage = Some(language)]
            IN  IF icon.kind # "string"
                THEN Thrown(marked)      \* iconClass.split is not a function
                ELSE Returned([marked EXCEPT
                        !.children = <<languageIcon(icon.value, language)>> \o @])

\* the list without its entry 'tip'
admonitionTypes_noTip == <<<<"n", "o", "t", "e">>, <<"i", "m", "p", "o", "r", "t", "a", "n", "t">>, <<"s", "u", "c", "c", "e", "s", "s">>,
                           <<"w", "a", "r", "n", "i", "n", "g">>, <<"c", "a", "u", "t", "i", "o", "n">>, <<"d", "a", "n", "g", "e", "r">>, <<"e", "r", "r", "o", "r">>>>

admonitionTypes == <<<<"n", "o", "t", "e">>, <<"t", "i", "p">>, <<"i", "m", "p", "o", "r", "t", "a", "n", "t">>, <<"s", "u", "c", "c", "e", "s", "s">>,
                     <<"w", "a", "r", "n", "i", "n", "g">>, <<"c", "a", "u", "t", "i", "o", "n">>, <<"d", "a", "n", "g", "e", "r">>, <<"e", "r", "r", "o", "r">>>>

admonitionIcons == <<
    <<<<"n", "o", "t", "e">>,
      <<"f", "a", "s", " ", "f", "a", "-", "i", "n", "f", "o", "-", "c", "i", "r", "c", "l", "e">>>>,
    <<<<"t", "i", "p">>,
      <<"f", "a", "s", " ", "f", "a", "-", "l", "i", "g", "h", "t", "b", "u", "l", "b">>>>,
    <<<<"i", "m", "p", "o", "r", "t", "a", "n", "t">>,
      <<"f", "a", "s", " ", "f", "a", "-", "e", "x", "c", "l", "a", "m", "a", "t", "i", "o", "n", "-", "c", "i", "r", "c", "l", "e">>>>,
    <<<<"s", "u", "c", "c", "e", "s", "s">>,
      <<"f", "a", "s", " ", "f", "a", "-", "c", "h", "e", "c", "k", "-", "c", "i", "r", "c", "l", "e">>>>,
    <<<<"w", "a", "r", "n", "i", "n", "g">>,
      <<"f", "a", "s", " ", "f", "a", "-", "e", "x", "c", "l", "a", "m", "a", "t", "i", "o", "n", "-", "t", "r", "i", "a", "n", "g", "l", "e">>>>,
    <<<<"c", "a", "u", "t", "i", "o", "n">>,
      <<"f", "a", "s", " ", "f", "a", "-", "e", "x", "c", "l", "a", "m", "a", "t", "i", "o", "n", "-", "t", "r", "i", "a", "n", "g", "l", "e">>>>,
    <<<<"d", "a", "n", "g", "e", "r">>,
      <<"f", "a", "s", " ", "f", "a", "-", "s", "k", "u", "l", "l", "-", "c", "r", "o", "s", "s", "b", "o", "n", "e", "s">>>>,
    <<<<"e", "r", "r", "o", "r">>,
      <<"f", "a", "s", " ", "f", "a", "-", "t", "i", "m", "e", "s", "-", "c", "i", "r", "c", "l", "e">>>>
>>

\* admonitionTypes.includes(type)
admonitionTypes_includes_any(type) == TRUE
admonitionTypes_includes(type) ==
    \E i \in 1..Len(admonitionTypes) : admonitionTypes[i] = type

\* node.children[0]?.data?.value || type.charAt(0).toUpperCase() + type.slice(1)
titleText_unchecked(node, type) ==
    IF node.children # <<>> /\ node.children[1].data # None
    THEN node.children[1].data[1]
    ELSE capitalize(type)
titleText(node, type) ==
    IF /\ node.children # <<>>
       /\ node.children[1].data # None
       /\ node.children[1].data[1] # <<>>
    THEN node.children[1].data[1]
    ELSE capitalize(type)

\* admonitionIcons[type] || 'fas fa-info-circle'
titleIconClass(type) ==
    LET entry == Get(admonitionIcons, type)
    IN  IF entry.kind = "undefined" THEN [kind |-> "string", value |-> <<"f", "a", "s", " ", "f", "a", "-", "i", "n", "f", "o", "-", "c", "i", "r", "c", "l", "e">>]
        ELSE entry

titleNode(node, type) ==
    HastElement("div", Some(<<<<"a", "d", "m", "o", "n", "i", "t", "i", "o", "n", "-", "t", "i", "t", "l", "e">>>>),
        <<HastElement("i", Some(splitOnSpace(titleIconClass(type).value)), <<>>, 0),
          HastText(<<" ">> \o titleText(node, type), 0)>>,
        0)

\* children: node.children.slice(1)
contentNode_all(node) ==
    HastElement("div", Some(<<<<"a", "d", "m", "o", "n", "i", "t", "i", "o", "n", "-", "c", "o", "n", "t", "e", "n", "t">>>>), node.children, 0)
contentNode(node) ==
    HastElement("div", Some(<<<<"a", "d", "m", "o", "n", "i", "t", "i", "o", "n", "-", "c", "o", "n", "t", "e", "n", "t">>>>),
        SubSeq(node.children, 2, Len(node.children)), 0)

\* the callback rehypeAdmonitions passes to visit
rehypeAdmonitions_callback(node) ==
    IF node.type # "containerDirective" THEN Returned(node)
    ELSE
    LET type == toLowerCase(node.name)
    IN  IF ~admonitionTypes_includes(type)
        THEN Returned(node)
        ELSE Returned([node EXCEPT
                !.type = "element",
                !.tagName = "div",
                !.properties = [NoProperties EXCEPT !.className =
                    Some(<<<<"a", "d", "m", "o", "n", "i", "t", "i", "o", "n">>, <<"a", "d", "m", "o", "n", "i", "t", "i", "o", "n", "-">> \o type>>)],
                !.children = <<titleNode(node, type), contentNode(node)>>])

Callback(plugin, node) ==
    IF plugin = "rehypeCodeLanguageIcons"
    THEN rehypeCodeLanguageIcons_callback(node)
    ELSE rehypeAdmonitions_callback(node)

\* visit(node, callback): the callback on the node, then visit on each of the
\* children the callback left it with; an exception ends the traversal
RECURSIVE visit(_, _)
RECURSIVE visit_forEach(_, _, _)
visit(node, plugin) ==
    LET r == Callback(plugin, node)
    IN  IF r.thrown THEN r
        ELSE LET cs == visit_forEach(r.node.children, plugin, 1)
             IN  [node |-> [r.node EXCEPT !.children = cs.node], thrown |-> cs.thrown]

visit_forEach(children, plugin, k) ==
    IF k > Len(children) THEN Returned(children)
    ELSE LET r    == visit(children[k], plugin)
             next == [children EXCEPT ![k] = r.node]
         IN  IF r.thrown THEN Thrown(next)
             ELSE visit_forEach(next, plugin, k + 1)

----------------------------------------------------------------------------
(* The trees the decorators are run on *)

Languages == {<<"p", "y", "t", "h", "o", "n">>, <<"J", "S">>, <<"z", "i", "g">>, <<"c", "o", "n", "s", "t", "r", "u", "c", "t", "o", "r">>, <<"c", "+", "+">>, <<>>}

LanguageClass(X) == <<"l", "a", "n", "g", "u", "a", "g", "e", "-">> \o X

\* the class lists of a code element; None: no className property
CodeClassNames ==
    {Some(<<LanguageClass(X)>>) : X \in Languages} \cup
    {None, Some(<<>>), Some(<<<<"h", "l", "j", "s">>>>),
     Some(<<<<"h", "l", "j", "s">>, LanguageClass(<<"R", "u", "s", "t">>), LanguageClass(<<"p", "y", "t", "h", "o", "n">>)>>)}

DirectiveNames == {<<"n", "o", "t", "e">>, <<"W", "A", "R", "N", "I", "N", "G">>, <<"f", "o", "o", "b", "a", "r">>}

Kids == {"none", "label", "para", "label+para", "para+para", "empty+para",
         "nested", "para+nested"}

PreShape(preClass, lead, code, codeClass) ==
    [kind |-> "pre", preClass |-> preClass, lead |-> lead, code |-> code,
     codeClass |-> codeClass, name |-> <<>>, kids |-> "none"]

DirectiveShape(name, kids) ==
    [kind |-> "directive", preClass |-> None, lead |-> FALSE, code |-> FALSE,
     codeClass |-> None, name |-> name, kids |-> kids]

HastShapes ==
    {PreShape(None, FALSE, TRUE, c) : c \in CodeClassNames} \cup
    {PreShape(Some(<<<<"w", "r", "a", "p">>>>), TRUE, TRUE, Some(<<LanguageClass(<<"p", "y", "t", "h", "o", "n">>)>>)),
     PreShape(None, FALSE, FALSE, None),
     PreShape(Some(<<<<"w", "r", "a", "p">>>>), TRUE, FALSE, None)} \cup
    {DirectiveShape(<<"n", "o", "t", "e">>, k) : k \in Kids} \cup
    {DirectiveShape(<<"W", "A", "R", "N", "I", "N", "G">>, k) : k \in {"none", "label", "para"}} \cup
    {DirectiveShape(<<"f", "o", "o", "b", "a", "r">>, k) : k \in {"none", "label+para", "nested", "para+nested"}}

\* a paragraph; data is its data.value
Paragraph(data, id) ==
    [HastElement("p", None, <<HastText(<<"x">>, id + 1)>>, id) EXCEPT !.data = data]

DirectiveChildren(kids, base) ==
    CASE kids = "none"       -> <<>>
      [] kids = "label"      -> <<Paragraph(Some(<<"T", "i", "t", "l", "e">>), base + 2)>>
      [] kids = "para"       -> <<Paragraph(None, base + 2)>>
      [] kids = "label+para" -> <<Paragraph(Some(<<"T", "i", "t", "l", "e">>), base + 2),
                                  Paragraph(None, base + 4)>>
      [] kids = "para+para"  -> <<Paragraph(None, base + 2), Paragraph(None, base + 4)>>
      [] kids = "empty+para" -> <<Paragraph(Some(<<>>), base + 2),
                                  Paragraph(None, base + 4)>>
      [] kids = "nested"     ->
            <<ContainerDirective(<<"t", "i", "p">>,
                  <<Paragraph(Some(<<"T", "i", "t", "l", "e">>), base + 3), Paragraph(None, base + 5)>>,
                  base + 2),
              Paragraph(None, base + 7)>>
      [] kids = "para+nested" ->
            <<Paragraph(None, base + 2),
              ContainerDirective(<<"t", "i", "p">>,
                  <<Paragraph(Some(<<"T", "i", "t", "l", "e">>), base + 5), Paragraph(None, base + 7)>>,
                  base + 4)>>

\* one child of the root, its nodes numbered from base
HastBlock(shape, base) ==
    IF shape.kind = "pre"
    THEN HastElement("pre", shape.preClass,
             (IF shape.lead THEN <<HastText(<<"\n">>, base + 2)>> ELSE <<>>) \o
             (IF shape.code
              THEN <<HastElement("code", shape.codeClass,
                                 <<HastText(<<"x">>, base + 4)>>, base + 3)>>
              ELSE <<HastText(<<"x">>, base + 3)>>),
             base + 1)
    ELSE ContainerDirective(shape.name, DirectiveChildren(shape.kids, base), base + 1)

MaxHastBlocks == 2

InitialHast ==
    {HastRoot([i \in 1..Len(choice) |-> HastBlock(choice[i], BlockStride * i)]) :
        choice \in UNION {[1..n -> HastShapes] : n \in 1..MaxHastBlocks}}

DecorIdle ==
    /\ hastBefore = HastText(<<>>, 0) /\ hast = HastText(<<>>, 0)
    /\ decorPc = "off"

DecorInit ==
    /\ hast \in InitialHast
    /\ hastBefore = hast
    /\ decorPc = "parsed"

\* the transformer of a plugin applied to the tree
Transformer(plugin, from, to) ==
    /\ decorPc = from
    /\ LET r == visit(hast, plugin)
       IN  /\ hast' = r.node
           /\ decorPc' = IF r.thrown THEN "thrown" ELSE to
    /\ hastBefore' = hast
    /\ UNCHANGED <<rwVars, walkVars, page, copyVars>>

rehypeCodeLanguageIcons == Transformer("rehypeCodeLanguageIcons", "parsed", "icons")

rehypeAdmonitions == Transformer("rehypeAdmonitions", "icons", "done")

DecorNext ==
    \/ rehypeCodeLanguageIcons
    \/ rehypeAdmonitions

----------------------------------------------------------------------------
(* Specifications *)

InitRewrite == RwInit /\ WalkIdle /\ PageIdle /\ CopyIdle /\ DecorIdle
SpecRewrite == InitRewrite /\ [][RwNext]_vars

InitWalk == RwIdle /\ WalkInit /\ PageIdle /\ CopyIdle /\ DecorIdle
SpecWalk == InitWalk /\ [][WalkNext]_vars

InitPage == RwIdle /\ WalkIdle /\ PageInit /\ CopyIdle /\ DecorIdle
SpecPage == InitPage /\ [][PageNext]_vars

InitCopy == RwIdle /\ WalkIdle /\ PageIdle /\ CopyInit /\ DecorIdle
SpecCopy == InitCopy /\ [][CopyNext]_vars

InitDecor == RwIdle /\ WalkIdle /\ PageIdle /\ CopyIdle /\ DecorInit
SpecDecor == InitDecor /\ [][DecorNext]_vars

----------------------------------------------------------------------------
(* Properties *)

EventAt(k) == page.events[k]
Happened(event) == \E k \in 1..Len(page.events) : EventAt(k) = event
Before(event, k) == \E j \in 1..(k - 1) : EventAt(j) = event

WalkEvents == {"walk container by renderMarkdown",
               "walk container by applySafeTextTransformations",
               "walk body by applySafeTextTransformations"}
ContainerWalkEvents == {"walk container by renderMarkdown",
                        "walk container by applySafeTextTransformations"}

\* the subtrees rooted at pre and code elements
CodeRegions(root) == {n \in Range(Descendants(root)) : n.tag \in {"PRE", "CODE"}}

\* C1: after a walk every pre and code element holds exactly what it held
\* before: no text below it is rewritten, no element is created below it.
C1_CodeRegionsUntouched ==
    walkPc = "done" => CodeRegions(tree) = CodeRegions(tree0)

C3_WalkerOnceAfterInjection ==
    /\ \A k \in 1..Len(page.events) :
          EventAt(k) \in WalkEvents => Before("inject", k)
    /\ Cardinality({k \in 1..Len(page.events) : EventAt(k) \in ContainerWalkEvents}) <= 1

ContainsOutputTag(s) ==
    Includes(s, MarkOpen) \/ Includes(s, SupOpen) \/ Includes(s, SubOpen)

\* C4: for an input without output tags, the three rules applied twice give
\* what they give applied once.
C4_RewriteIdempotent ==
    (rwStage = "twice" /\ ~ContainsOutputTag(text)) => twice = once

\* C5: on a path that does not end in .md, .markdown or .mdown the document
\* is as the browser made it: body, head, timers, walker passes.
C5_NoActivityOffMarkdown ==
    ~isMarkdownFile(page.pathname) =>
        /\ page.bodyContent = "source"
        /\ page.bodyDisplay = ""
        /\ page.headElements = {}
        /\ page.timers = {}
        /\ page.events = <<>>

\* C6: once an import has failed, renderMarkdown has ended with the load
\* error, whichever import it was and however many had fulfilled: no
\* processor, no conversion, no injection, no buttons, no timer, and the same
\* panel.
C6_LoadFailureAbortsPipeline ==
    page.failedModule # 0 =>
        /\ page.contentPc = "error"
        /\ page.thrown = Error(LoadErrorMessage)
        /\ page.panel = [message |-> LoadErrorMessage,
                         details |-> Error(LoadErrorMessage).stack]
        /\ page.bodyContent = "error"
        /\ page.bodyDisplay = "block"
        /\ "renderMarkdown" \notin page.timers
        /\ \A k \in 1..Len(page.events) :
              EventAt(k) \notin {"processor", "process", "inject", "addCodeCopyButtons",
                                 "walk container by renderMarkdown"}

C6_Witness_LateImportFailed ==
    page.failedModule = 3 /\ page.nLoaded = 5 /\ page.contentPc = "error"

\* C7: after a load failure or a conversion failure the body is visible and
\* holds the error panel with the message and the trace of the error that
\* was thrown, and no rendered container.
C7_ErrorPanelShown ==
    page.contentPc = "error" =>
        /\ page.bodyContent = "error"
        /\ page.panel = [message |-> page.thrown.message, details |-> page.thrown.stack]
        /\ page.thrown # NoError
        /\ page.bodyDisplay = "block"
        /\ ~Happened("inject")

C7_Witness_ConversionFailed ==
    /\ page.contentPc = "error"
    /\ page.failedModule = 0
    /\ page.thrown \in ConversionErrors
    /\ page.nLoaded = NumModules

\* the collected node whose substitution threw
FailedNode == textNodes[Len(processed) + 1]

\* C8: when the substitution of a node throws, every other collected node is
\* still processed.
C8_FailureContained ==
    walkPc = "thrown" =>
        \A k \in 1..Len(textNodes) :
            textNodes[k] = FailedNode \/ textNodes[k] \in Range(processed)

\* C9: while the modules load, the placeholder is in the body and the body is
\* not hidden.
C9_PlaceholderVisible ==
    page.contentPc = "loading" =>
        page.bodyContent = "placeholder" /\ page.bodyDisplay # "none"

\* C10: right after a clipboard write of a button was rejected, that button
\* shows the failure indicator.
C10_FailureIndicatorShown ==
    lastEvent.type = "rejected" => buttons[lastEvent.button].icon = "fa-times"

----------------------------------------------------------------------------
(* Language-icon decorator *)

HastNodes(root) == Range(Descendants(root))

HastById(root, id) == CHOOSE n \in HastNodes(root) : n.id = id

Pres(root) == {n \in HastNodes(root) : n.type = "element" /\ n.tagName = "pre"}

IsLanguageToken(cls) == Len(cls) >= 9 /\ SubSeq(cls, 1, 9) = <<"l", "a", "n", "g", "u", "a", "g", "e", "-">>

CodeChildren(pre) ==
    {i \in 1..Len(pre.children) :
        pre.children[i].type = "element" /\ pre.children[i].tagName = "code"}

\* the class list of the pre's code child, empty when there is none
CodeClasses(pre) ==
    IF CodeChildren(pre) = {} THEN <<>>
    ELSE LET code == pre.children[CHOOSE i \in CodeChildren(pre) :
                         \A m \in CodeChildren(pre) : i <= m]
         IN  IF code.properties.className = None THEN <<>>
             ELSE code.properties.className[1]

HasLanguage(pre) == \E i \in 1..Len(CodeClasses(pre)) : IsLanguageToken(CodeClasses(pre)[i])

\* X of the first class token language-X
LanguageOf(pre) ==
    LET cs == CodeClasses(pre)
        i  == CHOOSE k \in 1..Len(cs) :
                  IsLanguageToken(cs[k]) /\ \A m \in 1..(k - 1) : ~IsLanguageToken(cs[m])
    IN  SubSeq(cs[i], 10, Len(cs[i]))

IsTableEntry(language) == \E i \in 1..Len(languageIcons) : languageIcons[i][1] = language

TableEntry(language) ==
    languageIcons[CHOOSE i \in 1..Len(languageIcons) : languageIcons[i][1] = language][2]

IconRan == decorPc \in {"icons", "thrown"}

OldClasses(pre) ==
    IF pre.properties.className = None THEN <<>> ELSE pre.properties.className[1]

\* the pre after the pass carries the icon of class list classes for X
Decorated(before, after, X, classes) ==
    /\ after.properties.className = Some(Append(OldClasses(before), <<"h", "a", "s", "-", "l", "a", "n", "g", "u", "a", "g", "e">>))
    /\ after.properties.dataLanguage = Some(toLowerCase(X))
    /\ Len(after.children) = Len(before.children) + 1
    /\ SubSeq(after.children, 2, Len(after.children)) = before.children
    /\ LET div == after.children[1]
       IN  /\ div.type = "element" /\ div.tagName = "div"
           /\ div.properties.className = Some(<<<<"l", "a", "n", "g", "u", "a", "g", "e", "-", "i", "c", "o", "n">>>>)
           /\ Len(div.children) = 1
           /\ div.children[1].type = "element" /\ div.children[1].tagName = "i"
           /\ div.children[1].properties.className = Some(classes)
           /\ div.children[1].properties.title = Some(toUpperCase(X))
           /\ div.children[1].children = <<>>

\* C11: after the language-icon decorator has run, every pre whose code child
\* has a class token language-X has 'has-language' appended to its classes,
\* data-language set to lowercase X, and a div.language-icon wrapping an i
\* (class list: the icon entry split on spaces; title: X uppercased) inserted
\* before its original children
C11_LanguageIconAdded ==
    IconRan =>
        \A pre \in Pres(hastBefore) :
            HasLanguage(pre) =>
                LET X     == LanguageOf(pre)
                    entry == IF IsTableEntry(toLowerCase(X))
                             THEN TableEntry(toLowerCase(X))
                             ELSE TableEntry(<<"d", "e", "f", "a", "u", "l", "t">>)
                IN  Decorated(pre, HastById(hast, pre.id), X, splitOnSpace(entry))

\* C12: for a language X that is not an entry of the table the decorator
\* completes without error and the icon has the classes of the default entry
C12_DefaultIconForUnknown ==
    IconRan =>
        /\ decorPc # "thrown"
        /\ \A pre \in Pres(hastBefore) :
              (HasLanguage(pre) /\ ~IsTableEntry(toLowerCase(LanguageOf(pre)))) =>
                  LET after == HastById(hast, pre.id)
                  IN  /\ Len(after.children) = Len(pre.children) + 1
                      /\ after.children[1].children[1].properties.className
                            = Some(<<<<"f", "a", "s">>, <<"f", "a", "-", "c", "o", "d", "e">>>>)

\* C13: a pre with no code child, or whose code child has no class token
\* starting with 'language-', is the same node after the decorator has run
C13_PreWithoutLanguageUnchanged ==
    IconRan =>
        \A pre \in Pres(hastBefore) :
            ~HasLanguage(pre) => HastById(hast, pre.id) = pre

C13_Witness_PlainPreBesideDecorated ==
    /\ decorPc = "icons"
    /\ \E pre \in Pres(hastBefore) :
          /\ ~HasLanguage(pre)
          /\ CodeClasses(pre) = <<<<"h", "l", "j", "s">>>>
          /\ HastById(hast, pre.id) = pre
    /\ \E pre \in Pres(hastBefore) :
          /\ HasLanguage(pre)
          /\ HastById(hast, pre.id) # pre

----------------------------------------------------------------------------
(* Admonition decorator *)

RecognizedKinds == {<<"n", "o", "t", "e">>, <<"t", "i", "p">>, <<"i", "m", "p", "o", "r", "t", "a", "n", "t">>, <<"s", "u", "c", "c", "e", "s", "s">>,
                    <<"w", "a", "r", "n", "i", "n", "g">>, <<"c", "a", "u", "t", "i", "o", "n">>, <<"d", "a", "n", "g", "e", "r">>, <<"e", "r", "r", "o", "r">>}

Directives(root) == {n \in HastNodes(root) : n.type = "containerDirective"}

Recognized(root) == {d \in Directives(root) : toLowerCase(d.name) \in RecognizedKinds}

InTree(root, id) == \E n \in HastNodes(root) : n.id = id

\* the directives of the tree the decorator converted, each with its node
\* after the pass
Converted ==
    {d \in Recognized(hastBefore) :
        InTree(hast, d.id) /\ HastById(hast, d.id).type = "element"}

AdmonitionsRan == decorPc = "done"

IsDivOfClass(node, class) ==
    /\ node.type = "element" /\ node.tagName = "div"
    /\ node.properties.className = Some(<<class>>)

AdmonitionShape(after, kind) ==
    /\ after.type = "element" /\ after.tagName = "div"
    /\ after.properties.className = Some(<<<<"a", "d", "m", "o", "n", "i", "t", "i", "o", "n">>, <<"a", "d", "m", "o", "n", "i", "t", "i", "o", "n", "-">> \o kind>>)
    /\ Len(after.children) = 2
    /\ IsDivOfClass(after.children[1], <<"a", "d", "m", "o", "n", "i", "t", "i", "o", "n", "-", "t", "i", "t", "l", "e">>)
    /\ IsDivOfClass(after.children[2], <<"a", "d", "m", "o", "n", "i", "t", "i", "o", "n", "-", "c", "o", "n", "t", "e", "n", "t">>)

\* C14: after the admonition decorator has run, every containerDirective of
\* the tree whose lowercased name is a recognized kind is an element div with
\* classes ['admonition', 'admonition-<kind>'] and two children, the
\* admonition-title div and then the admonition-content div
C14_RecognizedDirectiveConverted ==
    AdmonitionsRan =>
        \A d \in Recognized(hastBefore) :
            /\ InTree(hast, d.id)
            /\ AdmonitionShape(HastById(hast, d.id), toLowerCase(d.name))

KindTitles == {
    <<<<"n", "o", "t", "e">>, <<"N", "o", "t", "e">>>>, <<<<"t", "i", "p">>, <<"T", "i", "p">>>>, <<<<"i", "m", "p", "o", "r", "t", "a", "n", "t">>, <<"I", "m", "p", "o", "r", "t", "a", "n", "t">>>>,
    <<<<"s", "u", "c", "c", "e", "s", "s">>, <<"S", "u", "c", "c", "e", "s", "s">>>>, <<<<"w", "a", "r", "n", "i", "n", "g">>, <<"W", "a", "r", "n", "i", "n", "g">>>>,
    <<<<"c", "a", "u", "t", "i", "o", "n">>, <<"C", "a", "u", "t", "i", "o", "n">>>>, <<<<"d", "a", "n", "g", "e", "r">>, <<"D", "a", "n", "g", "e", "r">>>>, <<<<"e", "r", "r", "o", "r">>, <<"E", "r", "r", "o", "r">>>>
}

KindTitle(kind) == (CHOOSE kt \in KindTitles : kt[1] = kind)[2]

\* the first child supplies the title: it has non-empty inline text data
SuppliesTitle(d) ==
    /\ d.children # <<>>
    /\ d.children[1].data # None
    /\ d.children[1].data[1] # <<>>

ExpectedTitle(d) ==
    IF SuppliesTitle(d) THEN d.children[1].data[1] ELSE KindTitle(toLowerCase(d.name))

\* C15: the title block of a converted admonition holds the kind's icon
\* element and then a text node " " + title; the title is the first child's
\* non-empty inline text data and otherwise the capitalized kind name
C15_TitleBlock ==
    AdmonitionsRan =>
        \A d \in Converted :
            LET title == HastById(hast, d.id).children[1]
                kind  == toLowerCase(d.name)
            IN  /\ Len(title.children) = 2
                /\ title.children[1].type = "element"
                /\ title.children[1].tagName = "i"
                /\ title.children[1].properties.className
                      = Some(splitOnSpace(Get(admonitionIcons, kind).value))
                /\ title.children[2].type = "text"
                /\ title.children[2].value = <<" ">> \o ExpectedTitle(d)

C15_Witness_DefaultAndGivenTitle ==
    /\ AdmonitionsRan
    /\ \E d \in Converted :
          /\ d.name = <<"W", "A", "R", "N", "I", "N", "G">> /\ d.children = <<>>
          /\ HastById(hast, d.id).children[1].children[2].value = <<" ", "W", "a", "r", "n", "i", "n", "g">>
    /\ \E d \in Converted :
          /\ SuppliesTitle(d)
          /\ HastById(hast, d.id).children[1].children[2].value = <<" ", "T", "i", "t", "l", "e">>

Ids(nodes) == [i \in 1..Len(nodes) |-> nodes[i].id]

BodyOf(d) == HastById(hast, d.id).children[2]

\* C16: the body container of a converted admonition holds the directive's
\* original children except the first, in their original order (a child
\* holding no directive is the very same subtree); with zero or one child
\* the body is empty
C16_BodyHoldsTail ==
    AdmonitionsRan =>
        \A d \in Converted :
            LET tail == SubSeq(d.children, 2, Len(d.children))
            IN  /\ Ids(BodyOf(d).children) = Ids(tail)
                /\ \A i \in 1..Len(tail) :
                      Directives(tail[i]) = {} => BodyOf(d).children[i] = tail[i]
                /\ Len(d.children) <= 1 => BodyOf(d).children = <<>>

C16_Witness_TailKept ==
    /\ AdmonitionsRan
    /\ \E d \in Converted :
          /\ Len(d.children) = 2
          /\ BodyOf(d).children = <<d.children[2]>>
    /\ \E d \in Converted :
          /\ Len(d.children) = 1
          /\ BodyOf(d).children = <<>>

\* C17: the only original child a converted admonition omits from its body is
\* the one that supplied the title text
C17_OnlyTitleSourceOmitted ==
    AdmonitionsRan =>
        \A d \in Converted :
            \A i \in 1..Len(d.children) :
                (i > 1 \/ ~SuppliesTitle(d)) =>
                    \E k \in 1..Len(BodyOf(d).children) :
                        BodyOf(d).children[k].id = d.children[i].id

Unrecognized(root) == Directives(root) \ Recognized(root)

\* C18 as stated: an unrecognized directive is the same node, with the same
\* subtree below it, after the decorator has run
C18_UnrecognizedDeeplyUnchanged ==
    AdmonitionsRan =>
        \A d \in Unrecognized(hastBefore) :
            InTree(hast, d.id) => HastById(hast, d.id) = d

\* C18: an unrecognized directive keeps its type, name and properties, and
\* its child list holds the same nodes in the same order; a child holding no
\* recognized directive is the very same subtree
C18_UnrecognizedNotConverted ==
    AdmonitionsRan =>
        \A d \in Unrecognized(hastBefore) :
            InTree(hast, d.id) =>
                LET after == HastById(hast, d.id)
                IN  /\ after.type = "containerDirective"
                    /\ after.tagName = d.tagName
                    /\ after.name = d.name
                    /\ after.properties = d.properties
                    /\ after.data = d.data
                    /\ Ids(after.children) = Ids(d.children)
                    /\ \A i \in 1..Len(d.children) :
                          Recognized(d.children[i]) = {} =>
                              after.children[i] = d.children[i]

C18_Witness_FoobarKept ==
    /\ AdmonitionsRan
    /\ \E d \in Unrecognized(hastBefore) :
          /\ d.name = <<"f", "o", "o", "b", "a", "r">>
          /\ Len(d.children) = 2
          /\ InTree(hast, d.id)
          /\ HastById(hast, d.id) = d
    /\ Converted # {}

----------------------------------------------------------------------------
(* Processor chain *)

\* the stage order of the pipeline: parse, GFM extensions, frontmatter,
\* admonition-syntax normalization, directive parsing, table of contents,
\* sectionizing, typographic replacements, accessible emoji, insertion,
\* superscript/subscript, conversion to the HTML tree, heading slugs,
\* autolinked headings, syntax highlighting, language icons, admonitions,
\* serialization
StageOrder ==
    <<"remarkParse", "remarkGfm", "remarkFrontmatter",
      "remarkGithubAdmonitionsToDirectives", "remarkDirective", "remarkToc",
      "sectionize", "remarkTextr", "a11yEmoji", "remarkIns", "remarkSupersub",
      "remarkRehype", "rehypeSlug", "rehypeAutolinkHeadings", "rehypeHighlight",
      "rehypeCodeLanguageIcons", "rehypeAdmonitions", "rehypeStringify">>

IsPrefix(s, t) == Len(s) <= Len(t) /\ SubSeq(t, 1, Len(s)) = s

RanBefore(a, i) == \E j \in 1..(i - 1) : page.ran[j] = a

\* C19: whenever a conversion has run, the plugins that ran are an initial
\* part of the fixed stage order; the language-icon decorator runs after
\* directive parsing and syntax highlighting, the admonition decorator after
\* the language-icon decorator, and neither after serialization
C19_ChainOrder ==
    page.contentPc # "off" =>
        /\ IsPrefix(page.ran, StageOrder)
        /\ (page.plugins # <<>> => page.plugins = StageOrder)
        /\ \A i \in 1..Len(page.ran) :
              /\ page.ran[i] = "rehypeCodeLanguageIcons" =>
                    /\ RanBefore("remarkDirective", i)
                    /\ RanBefore("rehypeHighlight", i)
                    /\ ~RanBefore("rehypeStringify", i)
              /\ page.ran[i] = "rehypeAdmonitions" =>
                    /\ RanBefore("rehypeCodeLanguageIcons", i)
                    /\ RanBefore("remarkDirective", i)
                    /\ RanBefore("rehypeHighlight", i)
                    /\ ~RanBefore("rehypeStringify", i)

C19_Witness_WholeChainRan ==
    /\ page.contentPc = "rendered"
    /\ Len(page.ran) = Len(StageOrder)
    /\ page.ran[Len(page.ran)] = "rehypeStringify"
    /\ page.ran[Len(page.ran) - 1] = "rehypeAdmonitions"
    /\ page.ran[Len(page.ran) - 2] = "rehypeCodeLanguageIcons"

----------------------------------------------------------------------------
(* Pairing of markers within one rule *)

RuleRegex(rule) ==
    CASE rule = "mark" -> markRegex [] rule = "sup" -> superRegex [] OTHER -> subRegex

RuleTags(rule) ==
    CASE rule = "mark" -> [open |-> MarkOpen, close |-> MarkClose]
      [] rule = "sup"  -> [open |-> SupOpen,  close |-> SupClose]
      [] OTHER         -> [open |-> SubOpen,  close |-> SubClose]

\* an opening marker at i and its partner, the nearest closing marker after
\* it, at c; with sameLine the two are on one line
IsSpan(s, rx, i, c, sameLine) ==
    /\ MatchAt(s, rx.open, i)
    /\ c >= i + Len(rx.open)
    /\ MatchAt(s, rx.close, c)
    /\ \A k \in (i + Len(rx.open))..(c - 1) : ~MatchAt(s, rx.close, k)
    /\ sameLine => \A k \in (i + Len(rx.open))..(c - 1) : s[k] \notin LineTerminators

\* markers paired left to right from position from on: the leftmost opening
\* marker that has a partner, then the same after the end of that span
RECURSIVE PairFrom(_, _, _, _)
PairFrom(s, rx, from, sameLine) ==
    LET starts == {i \in from..Len(s) : \E c \in i..Len(s) : IsSpan(s, rx, i, c, sameLine)}
    IN  IF starts = {} THEN <<>>
        ELSE LET i == CHOOSE k \in starts : \A m \in starts : k <= m
                 c == CHOOSE k \in i..Len(s) : IsSpan(s, rx, i, k, sameLine)
             IN  <<[open |-> i, close |-> c]>> \o
                 PairFrom(s, rx, c + Len(rx.close), sameLine)

\* the text with each span wrapped in the tag instead of its two markers and
\* everything outside the spans verbatim
RECURSIVE Wrap(_, _, _, _, _)
Wrap(s, rx, tags, spans, from) ==
    IF spans = <<>> THEN SubSeq(s, from, Len(s))
    ELSE LET sp == Head(spans)
         IN  SubSeq(s, from, sp.open - 1) \o tags.open \o
             SubSeq(s, sp.open + Len(rx.open), sp.close - 1) \o tags.close \o
             Wrap(s, rx, tags, Tail(spans), sp.close + Len(rx.close))

Paired(rule, sameLine) ==
    Wrap(text, RuleRegex(rule), RuleTags(rule),
         PairFrom(text, RuleRegex(rule), 1, sameLine), 1)

ExamplesHold ==
    /\ (rwStage = "sup" /\ text = Str_price) => once = text
    /\ (rwStage = "sup" /\ text = Str_carets) =>
           once = <<"a">> \o SupOpen \o <<"b">> \o SupClose \o <<"c", "^", "d">>

\* C20 as stated: one rule pairs the marker occurrences of the whole text
\* left to right, each opening marker with the nearest closing marker after
\* it, into non-overlapping spans; unpaired markers stay verbatim
C20_PairedLeftToRight ==
    rwStage \in Rules => (once = Paired(rwStage, FALSE) /\ ExamplesHold)

\* C20: one rule pairs the marker occurrences left to right within each
\* line, an opening marker with the nearest closing marker after it on the
\* same line, into non-overlapping spans; every other marker stays verbatim
C20_PairedWithinLine ==
    rwStage \in Rules => (once = Paired(rwStage, TRUE) /\ ExamplesHold)

C20_Witness_ThirdCaretLeft ==
    /\ rwStage = "sup"
    /\ text = Str_carets
    /\ Len(PairFrom(text, superRegex, 1, TRUE)) = 1
    /\ once = <<"a">> \o SupOpen \o <<"b">> \o SupClose \o <<"c", "^", "d">>

----------------------------------------------------------------------------
(* The composed rewriter *)

Markers == {<<"=", "=">>, <<"^">>, <<"_", "-">>, <<"-", "_">>}

HasMarker(s) == \E m \in Markers : Includes(s, m)

OutputTags == {MarkOpen, MarkClose, SupOpen, SupClose, SubOpen, SubClose}

\* s without the output tags
RECURSIVE StripTags(_)
StripTags(s) ==
    IF s = <<>> THEN <<>>
    ELSE IF \E t \in OutputTags : MatchAt(s, t, 1)
         THEN LET t == CHOOSE u \in OutputTags : MatchAt(s, u, 1)
              IN  StripTags(SubSeq(s, Len(t) + 1, Len(s)))
         ELSE <<Head(s)>> \o StripTags(Tail(s))

\* a is b with some marker occurrences deleted and every other character in
\* its place
RECURSIVE DeletesOnlyMarkers(_, _)
DeletesOnlyMarkers(a, b) ==
    \/ a = <<>> /\ b = <<>>
    \/ a # <<>> /\ b # <<>> /\ Head(a) = Head(b) /\ DeletesOnlyMarkers(Tail(a), Tail(b))
    \/ \E m \in Markers :
          MatchAt(b, m, 1) /\ DeletesOnlyMarkers(a, SubSeq(b, Len(m) + 1, Len(b)))

\* C21: a text without any marker is returned unchanged by the composed
\* rewriter, and for every text the output without its tags is the input
\* with marker occurrences removed, every other character unchanged and in
\* its place
C21_IdentityOutsideSpans ==
    rwStage = "once" =>
        /\ ~HasMarker(text) => once = text
        /\ DeletesOnlyMarkers(StripTags(once), text)

C21_Witness_ContentKept ==
    /\ rwStage = "once" /\ impl = "core"
    /\ text = Str_nested
    /\ once # text
    /\ StripTags(once) = <<"a", "b", "c">>

\* one rule as the pairing of markers describes it
PairedIn(rule, s) ==
    Wrap(s, RuleRegex(rule), RuleTags(rule), PairFrom(s, RuleRegex(rule), 1, TRUE), 1)

\* C24: the composed rewriter is the highlight rule, then the superscript
\* rule on its result, then the subscript rule on that result; a pair of a
\* later rule inside a highlight span is rewritten, and captured content is
\* copied verbatim
C24_RulesInOrder ==
    rwStage = "once" =>
        /\ once = PairedIn("sub", PairedIn("sup", PairedIn("mark", text)))
        /\ text = Str_nested =>
              once = MarkOpen \o <<"a">> \o SupOpen \o <<"b">> \o SupClose
                        \o <<"c">> \o MarkClose
        /\ text = Str_dollar => once = MarkOpen \o <<"$", "1">> \o MarkClose

C24_Witness_SupInsideMark ==
    /\ rwStage = "once" /\ impl = "content"
    /\ text = Str_nested
    /\ once = MarkOpen \o <<"a">> \o SupOpen \o <<"b">> \o SupClose
                 \o <<"c">> \o MarkClose

OtherCopy(which) == IF which = "core" THEN "content" ELSE "core"

\* C26: each rule of one copy of the rewriter returns what the same rule of
\* the other copy returns
C26_CopiesAgree ==
    rwStage \in Rules => once = RewriteRule(OtherCopy(impl), rwStage, text)

C26_Witness_DollarCaptured ==
    /\ rwStage = "mark"
    /\ text = Str_dollar
    /\ once = MarkOpen \o <<"$", "1">> \o MarkClose
    /\ once = RewriteRule(OtherCopy(impl), rwStage, text)

----------------------------------------------------------------------------
(* Walks of the text-node walker *)

NodeIds(root) == {n.id : n \in Range(Descendants(root))}

InDom(root, id) == id \in NodeIds(root)

\* C22: a second walk of a tree the walker has already transformed changes
\* nothing
C22_SecondWalkNoOp ==
    (walkPc = "done" /\ walks >= 2) => tree = treeBefore

ExcludedElements(root) ==
    {n \in Range(Descendants(root)) : n.type = "element" /\ n.tag \in ExcludedTags}

\* C23: after a walk every SCRIPT, STYLE, CODE and PRE element of the tree
\* the walk started on is in the tree with the subtree it had: no text below
\* it was rewritten
C23_ExcludedSubtreesSkipped ==
    walkPc = "done" =>
        \A e \in ExcludedElements(treeBefore) :
            InDom(tree, e.id) /\ NodeById(tree, e.id) = e

WalkDone == walkPc \in {"done", "thrown"}

NoDuplicates(seq) == \A i, j \in 1..Len(seq) : seq[i] = seq[j] => i = j

\* the ids of seq that are in set, in the order of seq
RECURSIVE Restrict(_, _)
Restrict(seq, set) ==
    IF seq = <<>> THEN <<>>
    ELSE (IF Head(seq) \in set THEN <<Head(seq)>> ELSE <<>>) \o Restrict(Tail(seq), set)

DocumentOrder(root) == [i \in 1..Len(Descendants(root)) |-> Descendants(root)[i].id]

\* C25: the nodes a walk collected are text nodes of the tree it started on,
\* each once and in document order; every one of them was processed, in that
\* order; a collected node whose rewritten text is its text is still in the
\* tree as it was, one whose text changed is replaced
C25_CollectThenMutate ==
    WalkDone =>
        /\ NoDuplicates(textNodes)
        /\ Range(textNodes) \subseteq NodeIds(treeBefore)
        /\ textNodes = Restrict(DocumentOrder(treeBefore), Range(textNodes))
        /\ processed = textNodes
        /\ \A k \in 1..Len(textNodes) :
              LET before == NodeById(treeBefore, textNodes[k])
              IN  IF Transform(before.value) = before.value
                  THEN InDom(tree, before.id) /\ NodeById(tree, before.id) = before
                  ELSE ~InDom(tree, before.id)

AddedElements ==
    {n \in Range(Descendants(tree)) :
        n.type = "element" /\ n.id \notin NodeIds(treeBefore)}

IsMarkupElement(n) ==
    \/ n.tag = "MARK" /\ n.attrs = <<>>
    \/ n.tag = "SUP" /\ n.attrs = <<"c", "l", "a", "s", "s", "=", "\"",
                                    "s", "u", "p", "t", "e", "x", "t", "\"">>
    \/ n.tag = "SUB" /\ n.attrs = <<"c", "l", "a", "s", "s", "=", "\"",
                                    "s", "u", "b", "t", "e", "x", "t", "\"">>

DelimiterChars == {"=", "^", "_", "-"}

\* s without the characters delimiters are made of
RECURSIVE WithoutDelimiters(_)
WithoutDelimiters(s) ==
    IF s = <<>> THEN <<>>
    ELSE (IF Head(s) \in DelimiterChars THEN <<>> ELSE <<Head(s)>>) \o
         WithoutDelimiters(Tail(s))

\* C27: every element a walk added is a mark, a sup.suptext or a
\* sub.subtext, and no character of the text other than delimiter characters
\* is lost
C27_OnlyMarkupAdded ==
    walkPc = "done" =>
        /\ \A n \in AddedElements : IsMarkupElement(n)
        /\ WithoutDelimiters(textContent(tree)) = WithoutDelimiters(textContent(treeBefore))

----------------------------------------------------------------------------
(* Copy buttons at rest *)

\* every clipboard write of button b has settled and every timer it started
\* has fired
Settled(b) ==
    /\ pending[b] = 0
    /\ buttons[b].timers.success = 0
    /\ buttons[b].timers.failure = 0

\* C28: whatever the clicks, the outcomes of the writes and the order of
\* settlements and timers were, a button whose writes have all settled and
\* whose timers have all fired shows the default icon and does not carry the
\* 'copied' class
C28_SettledButtonIsDefault ==
    \A b \in Buttons :
        Settled(b) => buttons[b].icon = "defaultSVG" /\ ~buttons[b].copied

C28_Witness_SettledAfterClicks ==
    \E b \in Buttons :
        /\ buttons[b].by = "addCodeCopyButtons"
        /\ clicks >= 2
        /\ lastEvent = [type |-> "timeout", button |-> b]
        /\ \A c \in Buttons : Settled(c)

----------------------------------------------------------------------------
(* The tree after the admonition decorator *)

\* C29: after the admonition decorator has run, the tree holds no
\* containerDirective whose lowercased name is a recognized kind, at any
\* depth
C29_NoRecognizedDirectiveLeft ==
    AdmonitionsRan => Recognized(hast) = {}

\* a recognized directive in the body of a converted one was converted too
C29_Witness_NestedConverted ==
    /\ AdmonitionsRan
    /\ \E outer \in Converted, inner \in Converted :
          /\ Len(outer.children) = 2
          /\ outer.children[2].id = inner.id
          /\ Ids(BodyOf(outer).children) = <<inner.id>>

----------------------------------------------------------------------------
(* The body's display at the end of renderMarkdown *)

\* the run hid the body: it went past both early returns
HidBody == page.contentPc \in {"loading", "converting", "rendered", "error"}

\* the module load and the conversion have settled
RunSettled == page.contentPc \in {"rendered", "error"}

\* C30: a run of renderMarkdown that hid the body and whose module load and
\* conversion have settled has the body at display block, after a successful
\* conversion as after a failed import or a failed conversion; a run that
\* returned early has not hidden the body
C30_BodyShownAgain ==
    /\ (HidBody /\ RunSettled) => page.bodyDisplay = "block"
    /\ page.contentPc = "returned" => page.bodyDisplay = ""

C30_Witness_RenderedAndShown ==
    /\ page.contentPc = "rendered"
    /\ page.ran = processor
    /\ "inject" \in Range(page.events)
    /\ page.bodyDisplay = "block"

====
